---- MODULE Spec2Model ----
(***************************************************************************)
(* cmdx: a command-snippet store kept as a directory tree (src/store.rs,   *)
(* src/command.rs) and the interactive picker built on it                  *)
(* (src/tui/app.rs, src/tui/event.rs).                                     *)
(*                                                                         *)
(* The store is the file system below the store root: a directory per      *)
(* category, a file per command.  Every Store method is modelled together  *)
(* with the file-system calls it makes, each call with the error cases of  *)
(* the operating system, so that a check the code leaves to the file       *)
(* system is part of the model.                                            *)
(***************************************************************************)
EXTENDS Integers, Sequences, FiniteSets, TLC

\* ------------------------------------------------------------- bounds
\* Most command files the store holds at a time (a guard of Add).
MaxLeaves == 2
\* The length of the longest text of a command file that is parsed.
MaxText == 4
\* The number of commands of the longest document that is imported.
MaxDoc == 2

\* ------------------------------------------------------------- inputs
\* The line feed, the one character str::lines splits at.
NL == "\n"
\* Command texts handed to add: a plain one and one that is only white space.
Cmds == {<<"x">>, <<" ">>}
\* Explanations handed to add.
Expls == {<<>>, <<"e">>}
\* The longest paths of the model: a chain of three segments, two entries in
\* one category, and a second category, whose name "ab" begins with the name
\* of the first.
Deepest == {<<"a", "a", "a">>, <<"a", "b">>, <<"ab", "a">>}

\* ---------------------------------------------------------- paths
\* A path is the sequence of its segments; <<>> is the store root itself.
\* The nodes of the model are the longest paths and all that lies above them.
Nodes == UNION {{SubSeq(p, 1, k) : k \in 0..Len(p)} : p \in Deepest}
Root == <<>>
Paths == Nodes \ {Root}

\* Path::parent
Parent(p) == SubSeq(p, 1, Len(p) - 1)

\* p is a strict path-prefix of q
IsPrefix(p, q) == Len(p) < Len(q) /\ SubSeq(q, 1, Len(p)) = p

\* ------------------------------------------------- text of a command file
IsSpace(c) == c \in {" ", "\t", "\r", NL}

RECURSIVE TrimStart(_)
TrimStart(s) ==
    IF s # <<>> /\ IsSpace(Head(s)) THEN TrimStart(Tail(s)) ELSE s

RECURSIVE TrimEnd(_)
TrimEnd(s) ==
    IF s # <<>> /\ IsSpace(s[Len(s)])
    THEN TrimEnd(SubSeq(s, 1, Len(s) - 1))
    ELSE s

\* A trim that takes nothing away.
TrimKeeps(s) == s

\* str::trim
Trim(s) == TrimEnd(TrimStart(s))

\* Index of the first line feed of s, 0 when it has none.
FirstNL(s) ==
    IF \E i \in 1..Len(s) : s[i] = NL
    THEN CHOOSE i \in 1..Len(s) : s[i] = NL /\ \A j \in 1..(i - 1) : s[j] # NL
    ELSE 0

\* str::lines: the text split at line feeds; a final line feed ends the last
\* line and starts no new one.
RECURSIVE Lines(_)
Lines(s) ==
    IF s = <<>> THEN <<>>
    ELSE LET i == FirstNL(s) IN
         IF i = 0 THEN <<s>>
         ELSE <<SubSeq(s, 1, i - 1)>> \o Lines(SubSeq(s, i + 1, Len(s)))

\* Command::new
NewCommand(path, command, explanation) ==
    [path |-> path, command |-> command, explanation |-> explanation]

NoCommand == NewCommand(<<>>, <<>>, <<>>)

\* Command::to_file_content
ToFileContent(cmd) == cmd.command \o <<NL>> \o cmd.explanation \o <<NL>>

\* Command::parse
Parse(path, content) ==
    LET lines == Lines(content) IN
    IF lines = <<>> THEN [err |-> "InvalidFormat", val |-> NoCommand]
    ELSE LET command     == Trim(lines[1])
             explanation == IF Len(lines) >= 2 THEN Trim(lines[2]) ELSE <<>>
         IN IF command = <<>>
            THEN [err |-> "InvalidFormat", val |-> NoCommand]
            ELSE [err |-> "ok", val |-> NewCommand(path, command, explanation)]

\* ------------------------------------------------------- the file system
\* What is at a node: nothing, a directory, or a file with its text.
Absent == [kind |-> "none", content |-> <<>>]
Dir == [kind |-> "dir", content |-> <<>>]
File(content) == [kind |-> "file", content |-> content]

\* Path resolution: the node is there and every node above it is a directory.
Exists(f, p) ==
    /\ f[p].kind # "none"
    /\ \A k \in 0..(Len(p) - 1) : f[SubSeq(p, 1, k)].kind = "dir"

IsDir(f, p) == Exists(f, p) /\ f[p].kind = "dir"
IsFile(f, p) == Exists(f, p) /\ f[p].kind = "file"

\* Whether the directory has no entry (fs::read_dir(dir)?.next().is_none()).
ReadDirEmpty(f, dir) ==
    \A q \in Nodes : (q # Root /\ Parent(q) = dir) => f[q].kind = "none"

\* mkdir(2): the parent must be a directory and the name free.  The error
\* kind is NotFound when a node above is missing, and another one otherwise.
Mkdir(f, p) ==
    IF p = Root
    THEN IF f[p].kind = "none"
         THEN [err |-> "ok", fs |-> [f EXCEPT ![p] = Dir]]
         ELSE [err |-> "Io", fs |-> f]
    ELSE IF \E k \in 0..(Len(p) - 1) : f[SubSeq(p, 1, k)].kind # "dir"
    THEN LET k == CHOOSE k \in 0..(Len(p) - 1) :
                      /\ f[SubSeq(p, 1, k)].kind # "dir"
                      /\ \A j \in 0..(k - 1) : f[SubSeq(p, 1, j)].kind = "dir"
         IN IF f[SubSeq(p, 1, k)].kind = "none"
            THEN [err |-> "IoNotFound", fs |-> f]
            ELSE [err |-> "Io", fs |-> f]
    ELSE IF f[p].kind # "none" THEN [err |-> "Io", fs |-> f]
    ELSE [err |-> "ok", fs |-> [f EXCEPT ![p] = Dir]]

\* fs::create_dir_all: mkdir; when the parent is missing, the parent first and
\* mkdir again; an existing directory is no error.
RECURSIVE CreateDirAll(_, _)
CreateDirAll(f, p) ==
    LET first == Mkdir(f, p) IN
    IF first.err = "ok" THEN first
    ELSE IF first.err # "IoNotFound"
    THEN IF IsDir(f, p) THEN [err |-> "ok", fs |-> f] ELSE [err |-> "Io", fs |-> f]
    ELSE LET up == CreateDirAll(f, Parent(p)) IN
         IF up.err # "ok" THEN [err |-> "Io", fs |-> f]
         ELSE LET again == Mkdir(up.fs, p) IN
              IF again.err = "ok" THEN again
              ELSE IF IsDir(up.fs, p) THEN [err |-> "ok", fs |-> up.fs]
              ELSE [err |-> "Io", fs |-> up.fs]

\* fs::write that also replaces a directory, as an insert into a map would.
WriteFileOverDir(f, p, content) ==
    IF p = Root \/ ~IsDir(f, Parent(p))
    THEN [err |-> "Io", fs |-> f]
    ELSE [err |-> "ok", fs |-> [f EXCEPT ![p] = File(content)]]

\* fs::write: creates or truncates the file; the parent must be a directory
\* and the target must not be one.
WriteFile(f, p, content) ==
    IF p = Root \/ ~IsDir(f, Parent(p)) \/ f[p].kind = "dir"
    THEN [err |-> "Io", fs |-> f]
    ELSE [err |-> "ok", fs |-> [f EXCEPT ![p] = File(content)]]

\* fs::remove_file that reports success and leaves the file.
RemoveFileKeeps(f, p) ==
    IF IsFile(f, p) THEN [err |-> "ok", fs |-> f] ELSE [err |-> "Io", fs |-> f]

\* fs::remove_file: unlink(2) removes a file and refuses a directory.
RemoveFile(f, p) ==
    IF IsFile(f, p)
    THEN [err |-> "ok", fs |-> [f EXCEPT ![p] = Absent]]
    ELSE [err |-> "Io", fs |-> f]

\* fs::remove_dir: rmdir(2) removes an empty directory.
RemoveDir(f, p) ==
    IF IsDir(f, p) /\ ReadDirEmpty(f, p)
    THEN [err |-> "ok", fs |-> [f EXCEPT ![p] = Absent]]
    ELSE [err |-> "Io", fs |-> f]

\* The node q after the subtree at src has been moved to dst.
Moved(f, src, dst, q) ==
    IF q = dst \/ IsPrefix(dst, q)
    THEN LET from == src \o SubSeq(q, Len(dst) + 1, Len(q)) IN
         IF from \in Nodes THEN f[from] ELSE Absent
    ELSE IF q = src \/ IsPrefix(src, q) THEN Absent
    ELSE f[q]

\* fs::rename that leaves the source where it was, as a copy would.
RenameSysCopies(f, src, dst) ==
    IF ~IsFile(f, src) \/ dst = Root \/ ~IsDir(f, Parent(dst))
          \/ f[dst].kind = "dir"
    THEN [err |-> "Io", fs |-> f]
    ELSE [err |-> "ok", fs |-> [f EXCEPT ![dst] = f[src]]]

\* fs::rename: rename(2).  A file replaces a file; a directory moves with all
\* that is below it, but not into itself and not onto a file or a non-empty
\* directory.
RenameSys(f, src, dst) ==
    IF ~Exists(f, src) \/ dst = Root \/ ~IsDir(f, Parent(dst))
    THEN [err |-> "Io", fs |-> f]
    ELSE IF src = dst THEN [err |-> "ok", fs |-> f]
    ELSE IF f[src].kind = "file"
    THEN IF f[dst].kind = "dir" THEN [err |-> "Io", fs |-> f]
         ELSE [err |-> "ok", fs |-> [q \in Nodes |-> Moved(f, src, dst, q)]]
    ELSE IF IsPrefix(src, dst) \/ f[dst].kind = "file"
            \/ (f[dst].kind = "dir" /\ ~ReadDirEmpty(f, dst))
    THEN [err |-> "Io", fs |-> f]
    ELSE [err |-> "ok", fs |-> [q \in Nodes |-> Moved(f, src, dst, q)]]

\* Whether all that is at or below src lands on a node of the model at dst.
FitsNodes(f, src, dst) ==
    \A q \in Nodes :
        ((q = src \/ IsPrefix(src, q)) /\ f[q].kind # "none")
            => dst \o SubSeq(q, Len(src) + 1, Len(q)) \in Nodes

\* ---------------------------------------------------------------- Store
\* Store::exists
StoreExists(f) == Exists(f, Root)

\* Store::init
StoreInit(f) == CreateDirAll(f, Root)

\* Command::from_file: the file's text, parsed; a directory cannot be read.
FromFile(f, path) ==
    IF ~IsFile(f, path) THEN [err |-> "Io", val |-> NoCommand]
    ELSE Parse(path, f[path].content)

\* Store::get
StoreGet(f, path) ==
    IF ~Exists(f, path) THEN [err |-> "NotFound", val |-> NoCommand]
    ELSE FromFile(f, path)

\* Store::add without the test for an existing entry.
StoreAddAlways(f, cmd, overwrite) ==
    LET dirs == CreateDirAll(f, Parent(cmd.path)) IN
    IF dirs.err # "ok" THEN [err |-> "Io", fs |-> dirs.fs]
    ELSE WriteFile(dirs.fs, cmd.path, ToFileContent(cmd))

\* Store::add that clears the way: an entry above the target that is no
\* directory is replaced by one.
StoreAddClearsWay(f, cmd, overwrite) ==
    IF Exists(f, cmd.path) /\ ~overwrite THEN [err |-> "AlreadyExists", fs |-> f]
    ELSE LET cleared == [q \in Nodes |->
                            IF IsPrefix(q, cmd.path) THEN Dir ELSE f[q]]
         IN WriteFile(cleared, cmd.path, ToFileContent(cmd))

\* Store::add
StoreAdd(f, cmd, overwrite) ==
    IF Exists(f, cmd.path) /\ ~overwrite THEN [err |-> "AlreadyExists", fs |-> f]
    ELSE LET dirs == CreateDirAll(f, Parent(cmd.path)) IN
         IF dirs.err # "ok" THEN [err |-> "Io", fs |-> dirs.fs]
         ELSE WriteFile(dirs.fs, cmd.path, ToFileContent(cmd))

\* Store::cleanup_empty_dirs that looks at the parent directory only.
CleanupParentOnly(f, path) ==
    LET dir == Parent(path) IN
    IF dir # Root /\ IsDir(f, dir) /\ ReadDirEmpty(f, dir)
    THEN RemoveDir(f, dir)
    ELSE [err |-> "ok", fs |-> f]

\* Store::cleanup_empty_dirs, from `current = dir` on: upwards from dir, an
\* empty directory is removed, the first non-empty one and the root end the
\* walk, a missing one is passed over.
RECURSIVE CleanupFrom(_, _)
CleanupFrom(f, dir) ==
    IF dir = Root THEN [err |-> "ok", fs |-> f]
    ELSE IF Exists(f, dir) /\ IsDir(f, dir)
    THEN IF ReadDirEmpty(f, dir)
         THEN LET gone == RemoveDir(f, dir) IN
              IF gone.err # "ok" THEN gone ELSE CleanupFrom(gone.fs, Parent(dir))
         ELSE [err |-> "ok", fs |-> f]
    ELSE CleanupFrom(f, Parent(dir))

\* Store::cleanup_empty_dirs
CleanupEmptyDirs(f, path) == CleanupFrom(f, Parent(path))

\* Store::remove
StoreRemove(f, path) ==
    IF ~Exists(f, path) THEN [err |-> "NotFound", fs |-> f]
    ELSE LET gone == RemoveFile(f, path) IN
         IF gone.err # "ok" THEN gone ELSE CleanupEmptyDirs(gone.fs, path)

\* Store::rename without the test for an existing destination: rename(2)
\* then replaces a file at dst.
StoreRenameOver(f, src, dst) ==
    IF ~Exists(f, src) THEN [err |-> "NotFound", fs |-> f]
    ELSE LET dirs == CreateDirAll(f, Parent(dst)) IN
         IF dirs.err # "ok" THEN [err |-> "Io", fs |-> dirs.fs]
         ELSE LET moved == RenameSys(dirs.fs, src, dst) IN
              IF moved.err # "ok" THEN moved ELSE CleanupEmptyDirs(moved.fs, src)

\* Store::rename
StoreRename(f, src, dst) ==
    IF ~Exists(f, src) THEN [err |-> "NotFound", fs |-> f]
    ELSE IF Exists(f, dst) THEN [err |-> "AlreadyExists", fs |-> f]
    ELSE LET dirs == CreateDirAll(f, Parent(dst)) IN
         IF dirs.err # "ok" THEN [err |-> "Io", fs |-> dirs.fs]
         ELSE LET moved == RenameSys(dirs.fs, src, dst) IN
              IF moved.err # "ok" THEN moved ELSE CleanupEmptyDirs(moved.fs, src)

\* The characters of a segment name.
SegStr(seg) == IF seg = "ab" THEN <<"a", "b">> ELSE <<seg>>

\* The path as the string the code compares: its segment names joined by
\* "/".
RECURSIVE PathStr(_)
PathStr(p) ==
    IF p = <<>> THEN <<>>
    ELSE IF Len(p) = 1 THEN SegStr(Head(p))
    ELSE SegStr(Head(p)) \o <<"/">> \o PathStr(Tail(p))

\* The byte of a character of a path string.
Byte(c) == CASE c = "/" -> 47 [] c = "a" -> 97 [] c = "b" -> 98

\* String order (str::cmp): byte by byte, a proper prefix first.
RECURSIVE StrLess(_, _)
StrLess(s, t) ==
    IF t = <<>> THEN FALSE
    ELSE IF s = <<>> THEN TRUE
    ELSE IF Head(s) # Head(t) THEN Byte(Head(s)) < Byte(Head(t))
    ELSE StrLess(Tail(s), Tail(t))

\* Whether the string s begins the string t (str::starts_with).
StartsWith(t, s) == Len(s) <= Len(t) /\ SubSeq(t, 1, Len(s)) = s

\* A listing by the path string: the command of every file whose path begins
\* with the characters of the prefix.
CollectByString(f, dir) ==
    {Parse(q, f[q].content).val :
        q \in {n \in Nodes : /\ StartsWith(PathStr(n), PathStr(dir))
                              /\ IsFile(f, n)
                              /\ Parse(n, f[n].content).err = "ok"}}

\* A listing that gives up on a file that does not parse: from_file(..)?
\* in place of `if let Ok(cmd)`.
CollectOrFail(f, dir) ==
    LET below == {n \in Nodes : (n = dir \/ IsPrefix(dir, n)) /\ IsFile(f, n)}
    IN IF \E n \in below : Parse(n, f[n].content).err # "ok" THEN {}
       ELSE {Parse(q, f[q].content).val : q \in below}

\* Store::collect_commands: the command of every file at or below dir that
\* parses; a file that does not parse is passed over.
CollectCommands(f, dir) ==
    {Parse(q, f[q].content).val :
        q \in {n \in Nodes : /\ (n = dir \/ IsPrefix(dir, n))
                              /\ IsFile(f, n)
                              /\ Parse(n, f[n].content).err = "ok"}}

\* commands.sort_by(|a, b| a.path.cmp(&b.path))
RECURSIVE SortByPath(_)
SortByPath(cmds) ==
    IF cmds = {} THEN <<>>
    ELSE LET least == CHOOSE c \in cmds :
                          \A d \in cmds \ {c} :
                              StrLess(PathStr(c.path), PathStr(d.path))
         IN <<least>> \o SortByPath(cmds \ {least})

\* Store::list; the prefix None is given as the root.
StoreList(f, prefix) ==
    IF ~StoreExists(f) THEN [err |-> "NotInitialized", val |-> <<>>]
    ELSE IF ~Exists(f, prefix) THEN [err |-> "ok", val |-> <<>>]
    ELSE [err |-> "ok", val |-> SortByPath(CollectCommands(f, prefix))]

\* ------------------------------------------------- the picker's values
\* Option<T>: None, or Some(x).
None == <<>>
Some(x) == <<x>>

\* What is typed into the forms of the picker: the segment names of the path
\* field, the characters of the command field, and the texts the three
\* fields hold while they are typed.  The description field keeps the text
\* it was opened with.
Segs == {"a", "b", "ab"}
Chars == {"x", "y"}
FormPaths == {<<>>, <<"a">>, <<"a", "b">>, <<"ab">>}
FormCommands == {<<>>, <<"x">>, <<"y">>}
FormDescriptions == {<<>>}

\* The texts the query holds while it is typed.
Queries == {<<>>, <<"b">>}

\* An error shown as a message that is none.
ErrorAsInfo(kind) == [text |-> kind, is_error |-> FALSE]

\* The message of an error, by its kind (format!("Error: {}", e)).
ErrorMessage(kind) == [text |-> kind, is_error |-> TRUE]
Required == [text |-> "Path and command are required", is_error |-> TRUE]
Info(text) == [text |-> text, is_error |-> FALSE]

\* The rows of an unfiltered list: (0..len).map(|i| (i, 0))
AllRows(len) == [i \in 1..len |-> <<i - 1, 0>>]

\* The matcher (SkimMatcherV2 of the fuzzy-matcher crate) scores a text
\* against a pattern when the characters of the pattern occur in the text in
\* their order: every matched character counts, one at the start of the text
\* or behind a separator and one directly behind the matched character before
\* it count more, and the characters skipped between two matched ones count
\* against.  The texts here are in lower case.
ScoreMatch == 16
BonusBoundary == 8
BonusConsecutive == 4
PenaltyGapStart == 3
PenaltyGapExtension == 1

\* The ways the pattern lies in the text: the place of each of its
\* characters.
Embeddings(choice, pattern) ==
    {e \in [1..Len(pattern) -> 1..Len(choice)] :
        \A i \in 1..Len(pattern) :
            /\ choice[e[i]] = pattern[i]
            /\ i > 1 => e[i - 1] < e[i]}

\* The score of the first i characters of the pattern where e places them.
RECURSIVE EmbeddingScore(_, _, _)
EmbeddingScore(choice, e, i) ==
    IF i = 0 THEN 0
    ELSE LET at == e[i]
             gap == IF i > 1 THEN at - e[i - 1] - 1 ELSE 0
         IN EmbeddingScore(choice, e, i - 1)
            + ScoreMatch
            + (IF at = 1 \/ (at > 1 /\ choice[at - 1] \in {"/", " "})
               THEN BonusBoundary ELSE 0)
            + (IF i > 1 /\ gap = 0 THEN BonusConsecutive ELSE 0)
            - (IF gap > 0 THEN PenaltyGapStart + (gap - 1) * PenaltyGapExtension
               ELSE 0)

\* matcher.fuzzy_match(choice, pattern): None when the pattern does not lie
\* in the text, the best score of the ways it lies in it otherwise; the
\* empty pattern lies in every text with the score 0.
FuzzyMatch(choice, pattern) ==
    IF pattern = <<>> THEN Some(0)
    ELSE LET scores == {EmbeddingScore(choice, e, Len(pattern)) :
                           e \in Embeddings(choice, pattern)}
         IN IF scores = {} THEN None
            ELSE Some(CHOOSE s \in scores : \A t \in scores : t <= s)

\* [..].into_iter().flatten().max(): the greatest of the scores that are
\* there, None when there is none.
BestScore(options) ==
    LET scores == {o[1] : o \in {options[i] : i \in 1..Len(options)} \ {None}}
    IN IF scores = {} THEN None
       ELSE Some(CHOOSE s \in scores : \A t \in scores : t <= s)

\* filter_map over the enumerated commands: a row <<index from 0, score>> for
\* each of the first k commands that has a score, in the order of the commands.
RECURSIVE ScoredRows(_, _)
ScoredRows(scores, k) ==
    IF k = 0 THEN <<>>
    ELSE ScoredRows(scores, k - 1)
         \o (IF scores[k] = None THEN <<>> ELSE << <<k - 1, scores[k][1]>> >>)

\* A row put in front of the rows of its own score.
InsertBeforeTies(sorted, row) ==
    LET k == Cardinality({i \in 1..Len(sorted) : sorted[i][2] > row[2]})
    IN SubSeq(sorted, 1, k) \o <<row>> \o SubSeq(sorted, k + 1, Len(sorted))

\* The place the sort gives a row among rows already in descending order of
\* score: behind every row of a greater or the same score.
InsertByScore(sorted, row) ==
    LET k == Cardinality({i \in 1..Len(sorted) : sorted[i][2] >= row[2]})
    IN SubSeq(sorted, 1, k) \o <<row>> \o SubSeq(sorted, k + 1, Len(sorted))

\* sort_by(|a, b| b.1.cmp(&a.1)): descending score; the sort is stable, rows
\* of one score stay in the order they came in.
RECURSIVE SortByScore(_)
SortByScore(rows) ==
    IF rows = <<>> THEN <<>>
    ELSE InsertByScore(SortByScore(SubSeq(rows, 1, Len(rows) - 1)),
                       rows[Len(rows)])

\* The score update_filter gives each command: the best of the scores of its
\* path, its command and its explanation.
FieldScores(query, cmds) ==
    [i \in 1..Len(cmds) |->
        BestScore(<<FuzzyMatch(PathStr(cmds[i].path), query),
                    FuzzyMatch(cmds[i].command, query),
                    FuzzyMatch(cmds[i].explanation, query)>>)]

\* format!("{} {} {}", cmd.path, cmd.command, cmd.explanation)
SearchText(cmd) ==
    PathStr(cmd.path) \o <<" ">> \o cmd.command \o <<" ">> \o cmd.explanation

\* The score fuzzy_search gives each command: that of the one text.
TextScores(query, cmds) ==
    [i \in 1..Len(cmds) |-> FuzzyMatch(SearchText(cmds[i]), query)]

\* The rows of the picker under a query: every command for the empty query,
\* the commands with a score, best first, otherwise.
FilterRows(query, cmds) ==
    IF query = <<>> THEN AllRows(Len(cmds))
    ELSE SortByScore(ScoredRows(FieldScores(query, cmds), Len(cmds)))

\* commands/find.rs fuzzy_search: the commands whose text has a score, best
\* first, each with its score.
FuzzySearch(query, cmds) ==
    LET rows == SortByScore(ScoredRows(TextScores(query, cmds), Len(cmds)))
    IN [k \in 1..Len(rows) |-> <<cmds[rows[k][1] + 1], rows[k][2]>>]

\* commands/find.rs best_match: the first command of the search.
BestMatch(query, cmds) ==
    LET found == FuzzySearch(query, cmds) IN
    IF found = <<>> THEN None ELSE Some(found[1][1])

\* An update_filter that leaves the selection where it is.
UpdateFilterKeeps(query, cmds, sel) ==
    [filtered |-> FilterRows(query, cmds), selected |-> sel, scroll_offset |-> 0]

\* An update_filter that shows every command, whatever the query.
UpdateFilterUnqueried(query, cmds, sel) ==
    [filtered |-> AllRows(Len(cmds)),
     selected |-> IF sel >= Len(cmds) THEN 0 ELSE sel,
     scroll_offset |-> 0]

\* App::update_filter: the rows under the query, the selection back at 0 when
\* it is past the end, the scroll offset 0.
UpdateFilter(query, cmds, sel) ==
    LET rows == FilterRows(query, cmds) IN
    [filtered |-> rows,
     selected |-> IF sel >= Len(rows) THEN 0 ELSE sel,
     scroll_offset |-> 0]

\* App::ensure_visible: the scroll offset after the selection moved.
EnsureVisible(sel, offset, height) ==
    IF sel < offset THEN sel
    ELSE IF sel >= offset + height
    THEN (IF sel >= height - 1 THEN sel - (height - 1) ELSE 0)
    ELSE offset

\* A search that finds every path at the head of the commands.
PositionHead(cmds, path) == IF cmds = <<>> THEN None ELSE Some(0)

\* The index (from 0) of the first command with the path, as
\* commands.iter().position(|c| c.path == path) finds it; None without one.
Position(cmds, path) ==
    IF \E i \in 1..Len(cmds) : cmds[i].path = path
    THEN Some((CHOOSE i \in 1..Len(cmds) :
                  /\ cmds[i].path = path
                  /\ \A j \in 1..(i - 1) : cmds[j].path # path) - 1)
    ELSE None

\* Vec::remove(idx), idx from 0.
RemoveAt(cmds, idx) ==
    SubSeq(cmds, 1, idx) \o SubSeq(cmds, idx + 2, Len(cmds))

\* What save_edited_command does to the store once the form is valid: the
\* old command is removed and the new one added; when the add fails, a
\* command is written back at the old path.
SaveEdited(f, original_path, cmd) ==
    LET gone == StoreRemove(f, original_path) IN
    IF gone.err # "ok" THEN [step |-> "remove", err |-> gone.err, fs |-> gone.fs]
    ELSE LET added == StoreAdd(gone.fs, cmd, FALSE) IN
         IF added.err = "ok" THEN [step |-> "add", err |-> "ok", fs |-> added.fs]
         ELSE LET back == StoreAdd(added.fs,
                              NewCommand(original_path, cmd.command, cmd.explanation),
                              TRUE)
              IN [step |-> "restore", err |-> added.err, fs |-> back.fs]

\* ------------------------------------------------------------- state
VARIABLES
    fs,                     \* the file system at and below the store root
    last,                   \* the latest Store call: method, path, outcome
    running,                \* whether the picker's loop (tui::run) is running
    input,                  \* App.input: the query
    cursor_position,        \* App.cursor_position
    mode,                   \* App.mode
    commands,               \* App.commands
    filtered,               \* App.filtered: rows <<index from 0, score>>
    selected,               \* App.selected, from 0
    scroll_offset,          \* App.scroll_offset
    visible_height,         \* App.visible_height
    should_quit,            \* App.should_quit
    selected_command,       \* App.selected_command
    form_path,              \* App.form_path, as a sequence of segments
    form_command,           \* App.form_command
    form_description,       \* App.form_description
    active_field,           \* App.active_field
    message,                \* App.message
    editing_original_path,  \* App.editing_original_path
    entered                 \* what get returned for the command under edit
                            \* when the edit form was entered (history)

form == <<form_path, form_command, form_description>>
list == <<commands, filtered, selected, scroll_offset, visible_height>>
prompt == <<input, cursor_position>>
app == <<mode, prompt, list, should_quit, selected_command, form, active_field,
         message, editing_original_path, entered>>
vars == <<fs, last, running, app>>

\* The paths that hold a command file.
Leaves(f) == {p \in Paths : IsFile(f, p)}

\* The records add is called with.
Commands == {NewCommand(p, c, e) : p \in Paths, c \in Cmds, e \in Expls}

Call(op, path, err) == [op |-> op, path |-> path, to |-> Root, err |-> err]

\* App::new(commands), with the fields as the primed variables.
AppNew(cmds) ==
    /\ input' = <<>>
    /\ cursor_position' = 0
    /\ commands' = cmds
    /\ filtered' = AllRows(Len(cmds))
    /\ selected' = 0
    /\ scroll_offset' = 0
    /\ visible_height' = 10
    /\ should_quit' = FALSE
    /\ selected_command' = None
    /\ mode' = "Normal"
    /\ form_path' = <<>>
    /\ form_command' = <<>>
    /\ form_description' = <<>>
    /\ active_field' = "Path"
    /\ message' = None
    /\ editing_original_path' = None
    /\ entered' = None

\* Store::new: nothing is created; the root may not exist yet.  No picker
\* runs; its fields are shown as App::new(vec![]) leaves them.
Init ==
    /\ fs = [q \in Nodes |-> Absent]
    /\ last = Call("new", Root, "ok")
    /\ running = FALSE
    /\ input = <<>> /\ cursor_position = 0
    /\ commands = <<>> /\ filtered = <<>> /\ selected = 0
    /\ scroll_offset = 0 /\ visible_height = 10
    /\ should_quit = FALSE /\ selected_command = None
    /\ mode = "Normal"
    /\ form_path = <<>> /\ form_command = <<>> /\ form_description = <<>>
    /\ active_field = "Path"
    /\ message = None /\ editing_original_path = None /\ entered = None

\* ------------------------------------------- Store calls outside the picker
\* No picker is running or has run: the store is the caller's alone.
Outside == ~running /\ ~should_quit

\* store.init()
InitStore ==
    LET r == StoreInit(fs) IN
    /\ Outside
    /\ fs' = r.fs
    /\ last' = Call("init", Root, r.err)
    /\ UNCHANGED <<running, app>>

\* store.get(path)
Get(path) ==
    /\ Outside
    /\ fs' = fs
    /\ last' = Call("get", path, StoreGet(fs, path).err)
    /\ UNCHANGED <<running, app>>

\* store.list(prefix); the prefix None is given as the root.
List(prefix) ==
    /\ Outside
    /\ fs' = fs
    /\ last' = Call("list", prefix, StoreList(fs, prefix).err)
    /\ UNCHANGED <<running, app>>

\* store.add(cmd, overwrite)
Add(cmd, overwrite) ==
    LET r == StoreAdd(fs, cmd, overwrite) IN
    /\ Outside
    /\ Cardinality(Leaves(r.fs)) <= MaxLeaves
    /\ fs' = r.fs
    /\ last' = Call("add", cmd.path, r.err)
    /\ UNCHANGED <<running, app>>

\* store.remove(path)
Remove(path) ==
    LET r == StoreRemove(fs, path) IN
    /\ Outside
    /\ fs' = r.fs
    /\ last' = Call("remove", path, r.err)
    /\ UNCHANGED <<running, app>>

\* store.rename(src, dst)
Rename(src, dst) ==
    LET r == StoreRename(fs, src, dst) IN
    /\ Outside
    /\ FitsNodes(fs, src, dst)
    /\ fs' = r.fs
    /\ last' = [Call("rename", src, r.err) EXCEPT !.to = dst]
    /\ UNCHANGED <<running, app>>

Next ==
    \/ InitStore
    \/ \E path \in Paths : Get(path)
    \/ \E prefix \in Nodes : List(prefix)
    \/ \E cmd \in Commands, overwrite \in BOOLEAN : Add(cmd, overwrite)
    \/ \E path \in Paths : Remove(path)
    \/ \E src \in Paths, dst \in Paths : Rename(src, dst)

\* The Store methods, called in any order.
Spec == Init /\ [][Next]_vars

\* ------------------------------------------------- the command line
\* A path given on the command line or in a document, as its segments: the
\* paths of the model, the empty string, "/a" (whose first segment is the
\* empty one) and "../a".
BadArgs == {<<>>, <<"", "a">>, <<"..", "a">>}
Args == Paths \cup BadArgs

\* path.is_empty() || path.starts_with('/') || path.contains("..")
InvalidArg(p) ==
    \/ p = <<>>
    \/ p[1] = ""
    \/ \E i \in 1..Len(p) : p[i] = ".."

\* Whether root.join(p) lies outside the tree below the root: an absolute
\* path replaces the root, a leading ".." leaves it.
Escapes(p) == p # <<>> /\ p[1] \in {"", ".."}

\* Store::add with the path as it is given.  root.join("") is the root
\* itself: it exists unless overwritten, and cannot be written as a file.  At
\* a path outside the tree the tree stays as it is, and the file the path
\* names is written ("escaped") unless what is there refuses it.
StoreAddArg(f, cmd, overwrite) ==
    IF cmd.path \in Paths THEN StoreAdd(f, cmd, overwrite)
    ELSE IF cmd.path = <<>>
    THEN [err |-> IF Exists(f, Root) /\ ~overwrite THEN "AlreadyExists"
                  ELSE "Io",
          fs |-> f]
    ELSE [err |-> "escaped", fs |-> f]

\* commands/add.rs exec, with the command and the explanation given
AddExec(f, path, cmd_text, explanation, force) ==
    IF ~StoreExists(f) THEN [err |-> "NotInitialized", fs |-> f]
    ELSE IF InvalidArg(path) THEN [err |-> "InvalidPath", fs |-> f]
    ELSE IF cmd_text = <<>> THEN [err |-> "InvalidPath", fs |-> f]
    ELSE StoreAddArg(f, NewCommand(path, cmd_text, explanation), force)

\* commands/mv.rs exec
MvExec(f, src, dst) ==
    IF ~StoreExists(f) THEN [err |-> "NotInitialized", fs |-> f]
    ELSE IF InvalidArg(dst) THEN [err |-> "InvalidPath", fs |-> f]
    ELSE StoreRename(f, src, dst)

\* The loop of commands/import.rs exec: every command of the document is
\* added, whatever the adds before it returned.
RECURSIVE ImportAll(_, _, _)
ImportAll(f, doc, force) ==
    IF doc = <<>> THEN f
    ELSE ImportAll(StoreAddArg(f, Head(doc), force).fs, Tail(doc), force)

\* An import that takes every version from 1 on.
ImportExecFromOne(f, version, doc, force) ==
    IF ~StoreExists(f) THEN [err |-> "NotInitialized", fs |-> f]
    ELSE IF version < 1 THEN [err |-> "Config", fs |-> f]
    ELSE [err |-> "ok", fs |-> ImportAll(f, doc, force)]

\* commands/import.rs exec on a document that is well-formed JSON
ImportExec(f, version, doc, force) ==
    IF ~StoreExists(f) THEN [err |-> "NotInitialized", fs |-> f]
    ELSE IF version # 1 THEN [err |-> "Config", fs |-> f]
    ELSE [err |-> "ok", fs |-> ImportAll(f, doc, force)]

\* The versions and the documents that are imported.
Versions == {0, 1, 2}
DocCommands ==
    {NewCommand(p, <<"x">>, <<>>) : p \in {<<"a">>, <<"a", "b">>, <<"..", "a">>}}
RECURSIVE DocsOf(_)
DocsOf(n) ==
    IF n = 0 THEN {<<>>}
    ELSE LET shorter == DocsOf(n - 1) IN
         shorter \cup {Append(d, c) : d \in shorter, c \in DocCommands}
Docs == DocsOf(MaxDoc)

\* cmdx add <path> -c <command> -e <explanation> [--force]
CmdxAdd(path, cmd_text, explanation, force) ==
    LET r == AddExec(fs, path, cmd_text, explanation, force) IN
    /\ Outside
    /\ Cardinality(Leaves(r.fs)) <= MaxLeaves
    /\ fs' = r.fs
    /\ last' = Call("cmdx add", path, r.err)
    /\ UNCHANGED <<running, app>>

\* cmdx mv <src> <dst>
CmdxMv(src, dst) ==
    LET r == MvExec(fs, src, dst) IN
    /\ Outside
    /\ dst \in Paths => FitsNodes(fs, src, dst)
    /\ fs' = r.fs
    /\ last' = [Call("cmdx mv", src, r.err) EXCEPT !.to = dst]
    /\ UNCHANGED <<running, app>>

\* cmdx import [--force]; the call is kept with its version and document.
CmdxImport(version, doc, force) ==
    LET r == ImportExec(fs, version, doc, force) IN
    /\ Outside
    /\ Cardinality(Leaves(r.fs)) <= MaxLeaves
    /\ fs' = r.fs
    /\ last' = [op |-> "cmdx import", path |-> Root, to |-> Root,
                err |-> r.err, version |-> version, doc |-> doc,
                force |-> force]
    /\ UNCHANGED <<running, app>>

\* The lookup of commands/copy.rs exec and commands/run.rs exec: the command
\* get returns for the query taken as a path; on any error of get, the best
\* match of the query among the listed commands, NotFound without one.
Lookup(f, query) ==
    IF ~StoreExists(f) THEN [err |-> "NotInitialized", val |-> NoCommand]
    ELSE LET got == StoreGet(f, query) IN
         IF got.err = "ok" THEN got
         ELSE LET listed == StoreList(f, Root)
                  best == BestMatch(PathStr(query), listed.val)
              IN IF listed.err # "ok" THEN [err |-> listed.err, val |-> NoCommand]
                 ELSE IF best = None THEN [err |-> "NotFound", val |-> NoCommand]
                 ELSE [err |-> "ok", val |-> best[1]]

\* cmdx copy <query>: the command found goes to the clipboard; the call is
\* kept with the command.
CmdxCopy(query) ==
    LET r == Lookup(fs, query) IN
    /\ Outside
    /\ last' = [op |-> "cmdx copy", path |-> query, to |-> Root,
                err |-> r.err, found |-> r.val]
    /\ UNCHANGED <<fs, running, app>>

\* cmdx run <query>: the command found is given to the shell; the call is
\* kept with the command.
CmdxRun(query) ==
    LET r == Lookup(fs, query) IN
    /\ Outside
    /\ last' = [op |-> "cmdx run", path |-> query, to |-> Root,
                err |-> r.err, found |-> r.val]
    /\ UNCHANGED <<fs, running, app>>

CliNext ==
    \/ InitStore
    \/ \E path \in Args, cmd_text \in {<<>>} \cup Cmds, force \in BOOLEAN :
           CmdxAdd(path, cmd_text, <<>>, force)
    \/ \E src \in Paths, dst \in Args : CmdxMv(src, dst)
    \/ \E version \in Versions, doc \in Docs, force \in BOOLEAN :
           CmdxImport(version, doc, force)

\* The commands of the command line, given in any order.
CliSpec == Init /\ [][CliNext]_vars

\* Commands are added and looked up by cmdx copy and cmdx run, in any order.
LookupNext ==
    \/ InitStore
    \/ \E path \in Paths, cmd_text \in Cmds, force \in BOOLEAN :
           CmdxAdd(path, cmd_text, <<>>, force)
    \/ \E query \in Paths : CmdxCopy(query)
    \/ \E query \in Paths : CmdxRun(query)

LookupSpec == Init /\ [][LookupNext]_vars

\* ------------------------------------------------- reading a command file
\* The texts a command file may hold: written by hand as well as by add.
RECURSIVE TextsOf(_)
TextsOf(n) ==
    IF n = 0 THEN {<<>>}
    ELSE LET shorter == TextsOf(n - 1) IN
         shorter \cup {Append(t, c) : t \in shorter, c \in {"x", " ", NL}}

Texts == TextsOf(MaxText)

\* A store with one command file, a, of any text; no picker runs.
ParseInit ==
    /\ \E t \in Texts :
           fs = [q \in Nodes |-> IF q = Root THEN Dir
                                 ELSE IF q = <<"a">> THEN File(t)
                                 ELSE Absent]
    /\ last = Call("new", Root, "ok")
    /\ running = FALSE
    /\ input = <<>> /\ cursor_position = 0
    /\ commands = <<>> /\ filtered = <<>> /\ selected = 0
    /\ scroll_offset = 0 /\ visible_height = 10
    /\ should_quit = FALSE /\ selected_command = None
    /\ mode = "Normal"
    /\ form_path = <<>> /\ form_command = <<>> /\ form_description = <<>>
    /\ active_field = "Path"
    /\ message = None /\ editing_original_path = None /\ entered = None

\* The file is read: store.get(path), Command::from_file, Command::parse.
ParseNext == \E path \in Paths : Get(path)

ParseSpec == ParseInit /\ [][ParseNext]_vars

\* ------------------------------------------------------------ the picker
\* The store holds nothing but what the forms of the picker can hold: the
\* stores the model starts the picker on.
Typable(f) ==
    \A p \in Paths :
        f[p].kind # "none" =>
            /\ \E q \in FormPaths : p = q \/ IsPrefix(p, q)
            /\ f[p].kind = "file" =>
                   \E c \in FormCommands \ {<<>>}, d \in FormDescriptions :
                       f[p].content = ToFileContent(NewCommand(p, c, d))

\* commands/pick.rs exec, tui::run up to its loop: the picker starts on the
\* listed commands; without a root or without a command it does not start.
Start ==
    LET listed == StoreList(fs, Root) IN
    /\ Outside
    /\ StoreExists(fs)
    /\ listed.val # <<>>
    /\ running' = TRUE
    /\ AppNew(listed.val)
    /\ fs' = fs
    /\ last' = Call("list", Root, listed.err)

\* The start of the picker on a store that its forms can type.
PickStart == Typable(fs) /\ Start

\* A clear_form that leaves editing_original_path as it is.
ClearFormBuffers ==
    /\ form_path' = <<>>
    /\ form_command' = <<>>
    /\ form_description' = <<>>
    /\ UNCHANGED <<editing_original_path, entered>>

\* App::clear_form
ClearForm ==
    /\ form_path' = <<>>
    /\ form_command' = <<>>
    /\ form_description' = <<>>
    /\ editing_original_path' = None
    /\ entered' = None

\* One turn of the loop of tui::run on a key that leaves the store alone and
\* does not end the session.
Stays == running' = running /\ UNCHANGED <<fs, last>>

\* A cancel that Esc does not reach in Delete mode.
CancelNotInDelete ==
    /\ running
    /\ mode \in {"Normal", "Add", "Edit"}
    /\ IF mode = "Normal"
       THEN /\ should_quit' = TRUE
            /\ running' = FALSE
            /\ UNCHANGED <<mode, form, editing_original_path, entered, message>>
       ELSE /\ mode' = "Normal"
            /\ ClearForm
            /\ message' = None
            /\ UNCHANGED <<should_quit, running>>
    /\ UNCHANGED <<fs, last, list, selected_command, active_field>>
    /\ UNCHANGED prompt

\* A cancel that ends the session in every mode.
CancelQuits ==
    /\ running
    /\ mode \in {"Normal", "Add", "Edit", "Delete"}
    /\ should_quit' = TRUE
    /\ running' = FALSE
    /\ UNCHANGED <<fs, last, mode, prompt, list, selected_command, form,
                   active_field, message, editing_original_path, entered>>

\* Esc (Ctrl-c in Normal mode; n in Delete mode): App::cancel.  In Normal
\* mode the loop ends.
Cancel ==
    /\ running
    /\ mode \in {"Normal", "Add", "Edit", "Delete"}
    /\ IF mode = "Normal"
       THEN /\ should_quit' = TRUE
            /\ running' = FALSE
            /\ UNCHANGED <<mode, form, editing_original_path, entered, message>>
       ELSE /\ mode' = "Normal"
            /\ ClearForm
            /\ message' = None
            /\ UNCHANGED <<should_quit, running>>
    /\ UNCHANGED <<fs, last, list, selected_command, active_field>>
    /\ UNCHANGED prompt

\* A select that takes the selection as an index of the commands, not of the
\* filtered rows.
SelectUnfiltered ==
    /\ running /\ mode = "Normal"
    /\ selected_command' =
           IF selected < Len(filtered) THEN Some(commands[selected + 1])
           ELSE selected_command
    /\ should_quit' = TRUE
    /\ running' = FALSE
    /\ UNCHANGED <<fs, last, mode, prompt, list, form, active_field, message,
                   editing_original_path, entered>>

\* Enter in Normal mode: App::select_current; the loop ends.
SelectCurrent ==
    /\ running /\ mode = "Normal"
    /\ selected_command' =
           IF selected < Len(filtered)
           THEN Some(commands[filtered[selected + 1][1] + 1])
           ELSE selected_command
    /\ should_quit' = TRUE
    /\ running' = FALSE
    /\ UNCHANGED <<fs, last, mode, list, form, active_field, message,
                   editing_original_path, entered>>
    /\ UNCHANGED prompt

\* Up: App::move_up
MoveUp ==
    /\ running /\ mode = "Normal"
    /\ IF filtered # <<>> /\ selected > 0
       THEN /\ selected' = selected - 1
            /\ scroll_offset' =
                   EnsureVisible(selected - 1, scroll_offset, visible_height)
       ELSE UNCHANGED <<selected, scroll_offset>>
    /\ Stays
    /\ UNCHANGED <<mode, commands, filtered, visible_height, should_quit,
                   selected_command, form, active_field, message,
                   editing_original_path, entered>>
    /\ UNCHANGED prompt

\* Down, Tab: App::move_down
MoveDown ==
    /\ running /\ mode = "Normal"
    /\ IF filtered # <<>> /\ selected < Len(filtered) - 1
       THEN /\ selected' = selected + 1
            /\ scroll_offset' =
                   EnsureVisible(selected + 1, scroll_offset, visible_height)
       ELSE UNCHANGED <<selected, scroll_offset>>
    /\ Stays
    /\ UNCHANGED <<mode, commands, filtered, visible_height, should_quit,
                   selected_command, form, active_field, message,
                   editing_original_path, entered>>
    /\ UNCHANGED prompt

\* F2: App::enter_add_mode
EnterAddMode ==
    /\ running /\ mode = "Normal"
    /\ mode' = "Add"
    /\ ClearForm
    /\ active_field' = "Path"
    /\ message' = None
    /\ Stays
    /\ UNCHANGED <<list, should_quit, selected_command>>
    /\ UNCHANGED prompt

\* An enter_edit_mode that does not record the path it edits.
EnterEditUnmarked ==
    /\ running /\ mode = "Normal"
    /\ IF selected < Len(filtered)
       THEN LET cmd == commands[filtered[selected + 1][1] + 1] IN
            /\ form_path' = cmd.path
            /\ form_command' = cmd.command
            /\ form_description' = cmd.explanation
            /\ editing_original_path' = None
            /\ entered' = Some(StoreGet(fs, cmd.path))
            /\ mode' = "Edit"
            /\ active_field' = "Command"
            /\ message' = None
       ELSE UNCHANGED <<form, editing_original_path, entered, mode,
                        active_field, message>>
    /\ Stays
    /\ UNCHANGED <<list, should_quit, selected_command, prompt>>

\* F3: App::enter_edit_mode
EnterEditMode ==
    /\ running /\ mode = "Normal"
    /\ IF selected < Len(filtered)
       THEN LET cmd == commands[filtered[selected + 1][1] + 1] IN
            /\ form_path' = cmd.path
            /\ form_command' = cmd.command
            /\ form_description' = cmd.explanation
            /\ editing_original_path' = Some(cmd.path)
            /\ entered' = Some(StoreGet(fs, cmd.path))
            /\ mode' = "Edit"
            /\ active_field' = "Command"
            /\ message' = None
       ELSE UNCHANGED <<form, editing_original_path, entered, mode,
                        active_field, message>>
    /\ Stays
    /\ UNCHANGED <<list, should_quit, selected_command>>
    /\ UNCHANGED prompt

\* An enter_delete_mode that does not look at the list.
EnterDeleteAlways ==
    /\ running /\ mode = "Normal"
    /\ mode' = "Delete" /\ message' = None
    /\ Stays
    /\ UNCHANGED <<list, should_quit, selected_command, form, active_field,
                   editing_original_path, entered, prompt>>

\* F4: App::enter_delete_mode
EnterDeleteMode ==
    /\ running /\ mode = "Normal"
    /\ IF filtered # <<>>
       THEN mode' = "Delete" /\ message' = None
       ELSE UNCHANGED <<mode, message>>
    /\ Stays
    /\ UNCHANGED <<list, should_quit, selected_command, form, active_field,
                   editing_original_path, entered>>
    /\ UNCHANGED prompt

\* A toggle_help that also takes the selection back to the first row.
ToggleHelpResets ==
    /\ running /\ mode \in {"Normal", "Help"}
    /\ mode' = IF mode = "Help" THEN "Normal" ELSE "Help"
    /\ selected' = 0 /\ scroll_offset' = 0
    /\ Stays
    /\ UNCHANGED <<commands, filtered, visible_height, should_quit,
                   selected_command, form, active_field, message,
                   editing_original_path, entered>>
    /\ UNCHANGED prompt

\* A toggle_help that F1 also reaches from the form of Add mode.
ToggleHelpInForm ==
    /\ running /\ mode \in {"Normal", "Help", "Add"}
    /\ mode' = IF mode = "Help" THEN "Normal" ELSE "Help"
    /\ Stays
    /\ UNCHANGED <<list, should_quit, selected_command, form, active_field,
                   message, editing_original_path, entered>>
    /\ UNCHANGED prompt

\* F1 in Normal mode; Esc, ? and q in Help mode: App::toggle_help
ToggleHelp ==
    /\ running /\ mode \in {"Normal", "Help"}
    /\ mode' = IF mode = "Help" THEN "Normal" ELSE "Help"
    /\ Stays
    /\ UNCHANGED <<list, should_quit, selected_command, form, active_field,
                   message, editing_original_path, entered>>
    /\ UNCHANGED prompt

\* Any other key in Help mode: the last arm of handle_help_mode
HelpOtherKey ==
    /\ running /\ mode = "Help"
    /\ UNCHANGED vars

\* Esc: App::cancel in Normal mode, in a form and in Delete mode,
\* App::toggle_help in Help mode
Escape == IF mode = "Help" THEN ToggleHelp ELSE Cancel

\* Tab in a form: App::next_field
NextField ==
    /\ running /\ mode \in {"Add", "Edit"}
    /\ active_field' = CASE active_field = "Path" -> "Command"
                          [] active_field = "Command" -> "Description"
                          [] active_field = "Description" -> "Path"
    /\ Stays
    /\ UNCHANGED <<mode, list, should_quit, selected_command, form, message,
                   editing_original_path, entered>>
    /\ UNCHANGED prompt

\* BackTab in a form: App::prev_field
PrevField ==
    /\ running /\ mode \in {"Add", "Edit"}
    /\ active_field' = CASE active_field = "Path" -> "Description"
                          [] active_field = "Command" -> "Path"
                          [] active_field = "Description" -> "Command"
    /\ Stays
    /\ UNCHANGED <<mode, list, should_quit, selected_command, form, message,
                   editing_original_path, entered>>
    /\ UNCHANGED prompt

\* The text of the active field (App::get_active_field_mut).
ActiveField ==
    CASE active_field = "Path" -> form_path
      [] active_field = "Command" -> form_command
      [] active_field = "Description" -> form_description

\* The active field takes the text, the other fields stay.
SetActiveField(text) ==
    /\ form_path' = IF active_field = "Path" THEN text ELSE form_path
    /\ form_command' = IF active_field = "Command" THEN text ELSE form_command
    /\ form_description' =
           IF active_field = "Description" THEN text ELSE form_description

\* The query changed: App::update_filter on the new text of the query.
Filter(text) ==
    LET u == UpdateFilter(text, commands, selected) IN
    /\ input' = text
    /\ filtered' = u.filtered
    /\ selected' = u.selected
    /\ scroll_offset' = u.scroll_offset
    /\ UNCHANGED <<commands, visible_height>>

\* A character typed: App::insert_char.  In Normal mode it goes into the
\* query at the cursor and the list is filtered; in a form it is pushed
\* onto the active field.  What is typed onto the path field is taken a whole
\* segment at a time.  (Every character here is one byte long.)
InsertChar(c) ==
    /\ running /\ mode \in {"Normal", "Add", "Edit"}
    /\ IF mode = "Normal"
       THEN LET typed == SubSeq(input, 1, cursor_position) \o <<c>>
                         \o SubSeq(input, cursor_position + 1, Len(input))
            IN /\ typed \in Queries
               /\ Filter(typed)
               /\ cursor_position' = cursor_position + 1
               /\ UNCHANGED form
       ELSE LET pushed == Append(ActiveField, c) IN
            /\ CASE active_field = "Path" -> pushed \in FormPaths
                 [] active_field = "Command" -> pushed \in FormCommands
                 [] active_field = "Description" -> pushed \in FormDescriptions
            /\ SetActiveField(pushed)
            /\ UNCHANGED <<prompt, list>>
    /\ Stays
    /\ UNCHANGED <<mode, should_quit, selected_command, active_field,
                   message, editing_original_path, entered>>

\* Backspace: App::delete_char.  In Normal mode the character before the
\* cursor leaves the query and the list is filtered, nothing happens with
\* the cursor at the start; in a form the end of the active field is popped.
DeleteChar ==
    /\ running /\ mode \in {"Normal", "Add", "Edit"}
    /\ IF mode = "Normal"
       THEN /\ IF cursor_position > 0
               THEN /\ cursor_position' = cursor_position - 1
                    /\ Filter(SubSeq(input, 1, cursor_position - 1)
                              \o SubSeq(input, cursor_position + 1, Len(input)))
               ELSE UNCHANGED <<prompt, list>>
            /\ UNCHANGED form
       ELSE /\ SetActiveField(SubSeq(ActiveField, 1, Len(ActiveField) - 1))
            /\ UNCHANGED <<prompt, list>>
    /\ Stays
    /\ UNCHANGED <<mode, should_quit, selected_command, active_field,
                   message, editing_original_path, entered>>

\* Delete, Ctrl-d in Normal mode: App::delete_char_forward
DeleteCharForward ==
    /\ running /\ mode = "Normal"
    /\ IF cursor_position < Len(input)
       THEN /\ Filter(SubSeq(input, 1, cursor_position)
                      \o SubSeq(input, cursor_position + 2, Len(input)))
            /\ UNCHANGED cursor_position
       ELSE UNCHANGED <<prompt, list>>
    /\ Stays
    /\ UNCHANGED <<mode, should_quit, selected_command, form, active_field,
                   message, editing_original_path, entered>>

\* Left, Right, Home, End in Normal mode: App::move_cursor_left,
\* move_cursor_right, move_cursor_start, move_cursor_end
MoveCursor(key) ==
    /\ running /\ mode = "Normal"
    /\ cursor_position' =
           CASE key = "Left" ->
                    IF cursor_position > 0 THEN cursor_position - 1
                    ELSE cursor_position
             [] key = "Right" ->
                    IF cursor_position < Len(input) THEN cursor_position + 1
                    ELSE cursor_position
             [] key = "Home" -> 0
             [] key = "End" -> Len(input)
    /\ Stays
    /\ UNCHANGED <<input, list, mode, should_quit, selected_command, form,
                   active_field, message, editing_original_path, entered>>

\* Ctrl-u: App::clear_input.  In Normal mode the query is cleared and the
\* list is filtered; in a form the active field is cleared.
ClearInput ==
    /\ running /\ mode \in {"Normal", "Add", "Edit"}
    /\ IF mode = "Normal"
       THEN /\ Filter(<<>>)
            /\ cursor_position' = 0
            /\ UNCHANGED form
       ELSE /\ SetActiveField(<<>>)
            /\ UNCHANGED <<prompt, list>>
    /\ Stays
    /\ UNCHANGED <<mode, should_quit, selected_command, active_field,
                   message, editing_original_path, entered>>

\* Enter in Add mode: App::confirm_action, App::save_new_command
SaveNewCommand ==
    /\ running /\ mode = "Add"
    /\ running' = running
    /\ IF form_path = <<>> \/ form_command = <<>>
       THEN /\ message' = Some(Required)
            /\ UNCHANGED <<fs, last, mode, list, form, editing_original_path,
                           entered>>
       ELSE LET cmd == NewCommand(form_path, form_command, form_description)
                r == StoreAdd(fs, cmd, FALSE)
            IN /\ Cardinality(Leaves(r.fs)) <= MaxLeaves
               /\ fs' = r.fs
               /\ last' = Call("add", cmd.path, r.err)
               /\ IF r.err = "ok"
                  THEN LET u == UpdateFilter(input, Append(commands, cmd), selected) IN
                       /\ commands' = Append(commands, cmd)
                       /\ filtered' = u.filtered
                       /\ selected' = u.selected
                       /\ scroll_offset' = u.scroll_offset
                       /\ mode' = "Normal"
                       /\ ClearForm
                       /\ message' = Some(Info("Command added successfully"))
                       /\ UNCHANGED visible_height
                  ELSE /\ message' = Some(ErrorMessage(r.err))
                       /\ UNCHANGED <<mode, list, form, editing_original_path,
                                      entered>>
    /\ UNCHANGED <<should_quit, selected_command, active_field>>
    /\ UNCHANGED prompt

\* Enter in Edit mode: App::confirm_action, App::save_edited_command
SaveEditedCommand ==
    /\ running /\ mode = "Edit"
    /\ running' = running
    /\ IF form_path = <<>> \/ form_command = <<>>
       THEN /\ message' = Some(Required)
            /\ UNCHANGED <<fs, last, mode, list, form, editing_original_path,
                           entered>>
       ELSE LET original_path == editing_original_path[1]
                cmd == NewCommand(form_path, form_command, form_description)
                r == SaveEdited(fs, original_path, cmd)
            IN /\ fs' = r.fs
               /\ last' = Call(r.step,
                               IF r.step = "add" THEN cmd.path ELSE original_path,
                               r.err)
               /\ IF r.err = "ok"
                  THEN LET at == Position(commands, original_path)
                           edited == IF at = None THEN commands
                                     ELSE [commands EXCEPT ![at[1] + 1] = cmd]
                           u == UpdateFilter(input, edited, selected)
                       IN /\ commands' = edited
                          /\ filtered' = u.filtered
                          /\ selected' = u.selected
                          /\ scroll_offset' = u.scroll_offset
                          /\ mode' = "Normal"
                          /\ ClearForm
                          /\ message' = Some(Info("Command updated successfully"))
                          /\ UNCHANGED visible_height
                  ELSE /\ message' = Some(ErrorMessage(r.err))
                       /\ UNCHANGED <<mode, list, form, editing_original_path,
                                      entered>>
    /\ UNCHANGED <<should_quit, selected_command, active_field>>
    /\ UNCHANGED prompt

\* A delete_selected_command that takes the command out of the commands in
\* memory and leaves the rows as they were.
DeleteKeepsRows ==
    /\ running /\ mode = "Delete"
    /\ running' = running
    /\ IF selected < Len(filtered)
       THEN LET idx == filtered[selected + 1][1]
                path == commands[idx + 1].path
                r == StoreRemove(fs, path)
            IN /\ fs' = r.fs
               /\ last' = Call("remove", path, r.err)
               /\ mode' = "Normal"
               /\ IF r.err = "ok"
                  THEN /\ commands' = RemoveAt(commands, idx)
                       /\ message' = Some(Info("Command deleted"))
                       /\ UNCHANGED <<filtered, selected, scroll_offset,
                                      visible_height>>
                  ELSE /\ message' = Some(ErrorMessage(r.err))
                       /\ UNCHANGED list
       ELSE UNCHANGED <<fs, last, mode, list, message>>
    /\ UNCHANGED <<should_quit, selected_command, form, active_field,
                   editing_original_path, entered>>
    /\ UNCHANGED prompt

\* y in Delete mode: App::confirm_action, App::delete_selected_command
DeleteSelectedCommand ==
    /\ running /\ mode = "Delete"
    /\ running' = running
    /\ IF selected < Len(filtered)
       THEN LET idx == filtered[selected + 1][1]
                path == commands[idx + 1].path
                r == StoreRemove(fs, path)
            IN /\ fs' = r.fs
               /\ last' = Call("remove", path, r.err)
               /\ mode' = "Normal"
               /\ IF r.err = "ok"
                  THEN LET left == RemoveAt(commands, idx)
                           u == UpdateFilter(input, left, selected)
                       IN /\ commands' = left
                          /\ filtered' = u.filtered
                          /\ selected' =
                                 IF u.selected >= Len(u.filtered) /\ u.selected > 0
                                 THEN u.selected - 1 ELSE u.selected
                          /\ scroll_offset' = u.scroll_offset
                          /\ message' = Some(Info("Command deleted"))
                          /\ UNCHANGED visible_height
                  ELSE /\ message' = Some(ErrorMessage(r.err))
                       /\ UNCHANGED list
       ELSE UNCHANGED <<fs, last, mode, list, message>>
    /\ UNCHANGED <<should_quit, selected_command, form, active_field,
                   editing_original_path, entered>>
    /\ UNCHANGED prompt

\* The draw at the head of each turn of the loop of tui::run (draw_ui,
\* draw_command_list): the list is given the rows the terminal has for it,
\* one at least, and the selection is scrolled into them
\* (App::set_visible_height).
Draw(height) ==
    /\ running
    /\ visible_height' = (IF height >= 1 THEN height ELSE 1)
    /\ scroll_offset' = EnsureVisible(selected, scroll_offset, visible_height')
    /\ UNCHANGED <<fs, last, running, mode, prompt, commands, filtered,
                   selected, should_quit, selected_command, form,
                   active_field, message, editing_original_path, entered>>

\* The draw of a turn leaves the App as it is when the terminal has kept its
\* size and the selection is among the rows shown; a key is then read on
\* the state the turn before left.
Shown == EnsureVisible(selected, scroll_offset, visible_height) = scroll_offset

\* tui::handle_key_event: the keys of each mode, read after the draw.
Key ==
    \/ Shown /\ Cancel
    \/ Shown /\ SelectCurrent
    \/ Shown /\ MoveUp
    \/ Shown /\ MoveDown
    \/ Shown /\ EnterAddMode
    \/ Shown /\ EnterEditMode
    \/ Shown /\ EnterDeleteMode
    \/ Shown /\ ToggleHelp
    \/ Shown /\ HelpOtherKey
    \/ Shown /\ NextField
    \/ Shown /\ PrevField
    \/ Shown /\ \E c \in Segs \cup Chars : InsertChar(c)
    \/ Shown /\ DeleteChar
    \/ Shown /\ DeleteCharForward
    \/ Shown /\ \E key \in {"Left", "Right", "Home", "End"} : MoveCursor(key)
    \/ Shown /\ ClearInput
    \/ Shown /\ SaveNewCommand
    \/ Shown /\ SaveEditedCommand
    \/ Shown /\ DeleteSelectedCommand

PickerNext == Next \/ PickStart \/ Key

\* The Store methods called in any order and then one session of the picker,
\* from its start to the key that ends it, in a terminal that shows ten rows
\* of the list throughout.
PickerSpec == Init /\ [][PickerNext]_vars

\* ------------------------------------------------ the list of the picker
\* The rows the terminal has for the list in a turn.
Heights == {0, 2, 10}

\* The stores the list is looked at: the root with some of three commands.
ViewPaths == {<<"a", "a", "a">>, <<"a", "b">>, <<"ab", "a">>}
ViewStore(leaves) ==
    [q \in Nodes |->
        IF q \in leaves THEN File(ToFileContent(NewCommand(q, <<"x">>, <<>>)))
        ELSE IF q = Root \/ \E l \in leaves : IsPrefix(q, l) THEN Dir
        ELSE Absent]

\* The store holds its commands and no picker runs yet.
ViewInit ==
    /\ \E leaves \in SUBSET ViewPaths : fs = ViewStore(leaves)
    /\ last = Call("init", Root, "ok")
    /\ running = FALSE
    /\ input = <<>> /\ cursor_position = 0
    /\ commands = <<>> /\ filtered = <<>> /\ selected = 0
    /\ scroll_offset = 0 /\ visible_height = 10
    /\ should_quit = FALSE /\ selected_command = None
    /\ mode = "Normal"
    /\ form_path = <<>> /\ form_command = <<>> /\ form_description = <<>>
    /\ active_field = "Path"
    /\ message = None /\ editing_original_path = None /\ entered = None

\* The keys that work on the list: the query, the selection, the deletion.
ViewKey ==
    \/ Shown /\ Cancel
    \/ Shown /\ SelectCurrent
    \/ Shown /\ MoveUp
    \/ Shown /\ MoveDown
    \/ Shown /\ EnterDeleteMode
    \/ Shown /\ ToggleHelp
    \/ Shown /\ HelpOtherKey
    \/ Shown /\ \E c \in Segs \cup Chars : InsertChar(c)
    \/ Shown /\ DeleteChar
    \/ Shown /\ DeleteCharForward
    \/ Shown /\ \E key \in {"Left", "Right", "Home", "End"} : MoveCursor(key)
    \/ Shown /\ ClearInput
    \/ Shown /\ DeleteSelectedCommand

ViewNext == Start \/ (\E height \in Heights : Draw(height)) \/ ViewKey

\* One session of the picker on a store of up to three commands, in a
\* terminal whose size changes from turn to turn.
ViewSpec == ViewInit /\ [][ViewNext]_vars

\* ---------------------------------------------- the bytes of the query
\* App::input is a String: UTF-8 bytes, and cursor_position is an index into
\* them.  A character of one byte is its own byte; the character Wide takes
\* two, its own and Cont after it.
Wide == "é"
Cont == "+"
QueryChars == {"a", "b", Wide}
MaxInput == 4

\* char::len_utf8 and the bytes char::encode_utf8 gives
Utf8(c) == IF c = Wide THEN <<c, Cont>> ELSE <<c>>

\* The characters of a String, as str::chars reads them.
Decode(bytes) == SelectSeq(bytes, LAMBDA b : b # Cont)

\* str::is_char_boundary
IsCharBoundary(bytes, index) ==
    \/ index = 0
    \/ index = Len(bytes)
    \/ index < Len(bytes) /\ bytes[index + 1] # Cont

\* String::insert(idx, ch): it asserts that idx is a character boundary and
\* panics when it is not.
StringInsert(bytes, idx, ch) ==
    IF IsCharBoundary(bytes, idx)
    THEN [panic |-> FALSE,
          val |-> SubSeq(bytes, 1, idx) \o Utf8(ch)
                  \o SubSeq(bytes, idx + 1, Len(bytes))]
    ELSE [panic |-> TRUE, val |-> bytes]

\* String::remove(idx): it slices the string at idx, which panics off a
\* character boundary, takes the character there, panics when there is
\* none, and removes all the bytes of the character.
StringRemove(bytes, idx) ==
    IF IsCharBoundary(bytes, idx) /\ idx < Len(bytes)
    THEN [panic |-> FALSE,
          val |-> SubSeq(bytes, 1, idx)
                  \o SubSeq(bytes, idx + Len(Utf8(bytes[idx + 1])) + 1,
                            Len(bytes))]
    ELSE [panic |-> TRUE, val |-> bytes]

\* A panic unwinds tui::run out of its loop: the session is over, and
\* should_quit was never set.
Panic ==
    /\ running' = FALSE
    /\ UNCHANGED <<fs, last, app>>

\* update_filter on the characters of the query
FilterBytes(bytes) ==
    LET u == UpdateFilter(Decode(bytes), commands, selected) IN
    /\ input' = bytes
    /\ filtered' = u.filtered
    /\ selected' = u.selected
    /\ scroll_offset' = u.scroll_offset
    /\ UNCHANGED <<commands, visible_height>>

\* App::insert_char in Normal mode, the query as bytes:
\* input.insert(cursor_position, c); cursor_position += 1; update_filter()
InsertCharBytes(c) ==
    /\ running /\ mode = "Normal"
    /\ Len(input) + Len(Utf8(c)) <= MaxInput
    /\ LET r == StringInsert(input, cursor_position, c) IN
       IF r.panic THEN Panic
       ELSE /\ cursor_position' = cursor_position + 1
            /\ FilterBytes(r.val)
            /\ Stays
            /\ UNCHANGED <<mode, should_quit, selected_command, form,
                           active_field, message, editing_original_path,
                           entered>>

\* App::delete_char in Normal mode, the query as bytes:
\* cursor_position -= 1; input.remove(cursor_position); update_filter()
DeleteCharBytes ==
    /\ running /\ mode = "Normal"
    /\ IF cursor_position > 0
       THEN LET r == StringRemove(input, cursor_position - 1) IN
            IF r.panic THEN Panic
            ELSE /\ cursor_position' = cursor_position - 1
                 /\ FilterBytes(r.val)
                 /\ Stays
                 /\ UNCHANGED <<mode, should_quit, selected_command, form,
                                active_field, message, editing_original_path,
                                entered>>
       ELSE UNCHANGED vars

\* App::delete_char_forward, the query as bytes:
\* input.remove(cursor_position); update_filter()
DeleteCharForwardBytes ==
    /\ running /\ mode = "Normal"
    /\ IF cursor_position < Len(input)
       THEN LET r == StringRemove(input, cursor_position) IN
            IF r.panic THEN Panic
            ELSE /\ FilterBytes(r.val)
                 /\ Stays
                 /\ UNCHANGED <<cursor_position, mode, should_quit,
                                selected_command, form, active_field, message,
                                editing_original_path, entered>>
       ELSE UNCHANGED vars

\* The keys that edit the query, and Esc.
QueryKey ==
    \/ \E c \in QueryChars : InsertCharBytes(c)
    \/ DeleteCharBytes
    \/ DeleteCharForwardBytes
    \/ \E key \in {"Left", "Right", "Home", "End"} : MoveCursor(key)
    \/ ClearInput
    \/ Cancel

QueryNext == Start \/ QueryKey

\* The picker with its query typed and edited key by key, the
\* characters of the query one or two bytes long.
QuerySpec == ViewInit /\ [][QueryNext]_vars

\* ------------------------------------------------------------ claims
\* The proper ancestors of a path below the root, the root left out.
Ancestors(p) == {SubSeq(p, 1, k) : k \in 1..(Len(p) - 1)}

C2_RestoresOriginal ==
    (running /\ mode = "Edit" /\ last.op = "restore" /\ entered[1].err = "ok")
        => StoreGet(fs, editing_original_path[1]) = entered[1]

\* C3: while the picker shows its list (mode Normal), the commands it holds
\* are, as a set, the commands that get retrieves from the store.
C3_MemoryIsStore ==
    (running /\ mode = "Normal")
        => {commands[i] : i \in 1..Len(commands)}
             = {StoreGet(fs, p).val :
                    p \in {q \in Paths : StoreGet(fs, q).err = "ok"}}

\* C4: add(p, cmd, expl) followed by get(p) returns {p, cmd, expl}.
C4_AddThenGet ==
    \A cmd \in Commands, overwrite \in BOOLEAN :
        LET r == StoreAdd(fs, cmd, overwrite) IN
        r.err = "ok" => StoreGet(r.fs, cmd.path) = [err |-> "ok", val |-> cmd]

\* C5: add without overwrite at a path that holds a leaf fails with
\* AlreadyExists and leaves the store as it was.
C5_AddExistingFails ==
    \A cmd \in Commands :
        IsFile(fs, cmd.path) =>
            StoreAdd(fs, cmd, FALSE) = [err |-> "AlreadyExists", fs |-> fs]

\* C5, its case: an add was refused at a path that holds a leaf.
C5_Witness ==
    last.op = "add" /\ last.err = "AlreadyExists" /\ IsFile(fs, last.path)

\* C6: a successful add changes the leaf at its path and nothing else: every
\* other leaf is there with the same text, and no other leaf appears.
C6_AddFrame ==
    \A cmd \in Commands, overwrite \in BOOLEAN :
        LET r == StoreAdd(fs, cmd, overwrite) IN
        r.err = "ok" =>
            /\ Leaves(r.fs) = Leaves(fs) \cup {cmd.path}
            /\ \A q \in Leaves(fs) \ {cmd.path} :
                   /\ r.fs[q] = fs[q]
                   /\ StoreGet(r.fs, q) = StoreGet(fs, q)

\* C6, its case: an add has succeeded beside another leaf.
C6_Witness ==
    /\ last.op = "add" /\ last.err = "ok"
    /\ Leaves(fs) \ {last.path} # {}

\* C7: after a successful remove(p), get(p) is NotFound, list does not hold
\* p, and every other leaf is there with the same text.
C7_RemoveGone ==
    \A p \in Paths :
        LET r == StoreRemove(fs, p) IN
        r.err = "ok" =>
            /\ StoreGet(r.fs, p).err = "NotFound"
            /\ LET l == StoreList(r.fs, Root).val IN
               \A i \in 1..Len(l) : l[i].path # p
            /\ Leaves(r.fs) = Leaves(fs) \ {p}
            /\ \A q \in Leaves(fs) \ {p} :
                   /\ r.fs[q] = fs[q]
                   /\ StoreGet(r.fs, q) = StoreGet(fs, q)

\* C7, its case: a remove has succeeded and another leaf is left.
C7_Witness ==
    /\ last.op = "remove" /\ last.err = "ok"
    /\ ~Exists(fs, last.path)
    /\ Leaves(fs) # {}

\* C8: after a successful remove(p) no ancestor of p is an empty directory,
\* every ancestor that had an entry beside the way to p is still there, and
\* the root is still there.
C8_RemovePrunes ==
    \A p \in Paths :
        LET r == StoreRemove(fs, p) IN
        r.err = "ok" =>
            /\ \A d \in Ancestors(p) :
                   ~(IsDir(r.fs, d) /\ ReadDirEmpty(r.fs, d))
            /\ \A d \in Ancestors(p) :
                   (\E q \in Paths : /\ Parent(q) = d
                                      /\ fs[q].kind # "none"
                                      /\ q # p /\ ~IsPrefix(q, p))
                       => IsDir(r.fs, d)
            /\ StoreExists(r.fs)

\* C8, its case: the last leaf, two categories deep, has been removed: both
\* categories are gone and the root is left.
C8_Witness ==
    /\ last.op = "remove" /\ last.err = "ok" /\ Len(last.path) = 3
    /\ StoreExists(fs)
    /\ \A q \in Paths : fs[q].kind = "none"

\* C9: get and remove at a path that holds no leaf, a category included,
\* fail with NotFound and leave the store as it was.
C9_NoLeafNotFound ==
    \A p \in Paths :
        ~IsFile(fs, p) =>
            /\ StoreGet(fs, p).err = "NotFound"
            /\ StoreRemove(fs, p) = [err |-> "NotFound", fs |-> fs]

\* C10: rename from a path that holds no leaf, a category included, fails
\* with NotFound and leaves the store as it was.
C10_RenameNoLeafNotFound ==
    \A src \in Paths, dst \in Paths :
        (~IsFile(fs, src) /\ FitsNodes(fs, src, dst)) =>
            StoreRename(fs, src, dst) = [err |-> "NotFound", fs |-> fs]

\* C11: rename of a leaf src onto a path dst that holds a leaf fails with
\* AlreadyExists, and get(src) and get(dst) return what they returned before.
C11_RenameOntoLeafFails ==
    \A src \in Paths, dst \in Paths :
        (IsFile(fs, src) /\ IsFile(fs, dst)) =>
            LET r == StoreRename(fs, src, dst) IN
            /\ r.err = "AlreadyExists"
            /\ StoreGet(r.fs, src) = StoreGet(fs, src)
            /\ StoreGet(r.fs, dst) = StoreGet(fs, dst)

\* C11, its case: a rename from one leaf onto another has just been refused.
C11_Witness ==
    /\ last.op = "rename" /\ last.err = "AlreadyExists"
    /\ last.path # last.to
    /\ IsFile(fs, last.path) /\ IsFile(fs, last.to)
    /\ StoreGet(fs, last.path).err = "ok" /\ StoreGet(fs, last.to).err = "ok"

\* C12: after a successful rename of a leaf src to dst, get(src) is
\* NotFound, get(dst) returns the command and explanation get(src) returned
\* before, every other leaf is there with the same text and no other leaf
\* appears, and the ancestors of src are pruned as remove(src) prunes them:
\* one is a directory afterwards exactly when remove would leave it or it
\* is on the way to dst.
C12_RenameMoves ==
    \A src \in Paths, dst \in Paths :
        LET r == StoreRename(fs, src, dst)
            gone == StoreRemove(fs, src)
            was == StoreGet(fs, src)
            now == StoreGet(r.fs, dst)
        IN (IsFile(fs, src) /\ r.err = "ok") =>
            /\ StoreGet(r.fs, src).err = "NotFound"
            /\ now.err = was.err
            /\ now.val.command = was.val.command
            /\ now.val.explanation = was.val.explanation
            /\ r.fs[dst] = fs[src]
            /\ Leaves(r.fs) = (Leaves(fs) \ {src}) \cup {dst}
            /\ \A q \in Leaves(fs) \ {src} : r.fs[q] = fs[q]
            /\ gone.err = "ok"
            /\ \A d \in Ancestors(src) :
                   IsDir(r.fs, d) <=> (IsDir(gone.fs, d) \/ d \in Ancestors(dst))
            /\ \A d \in Ancestors(src) :
                   ~(IsDir(r.fs, d) /\ ReadDirEmpty(r.fs, d))

\* C12, its case: a leaf two categories deep, alone in them, has just been
\* renamed to a path elsewhere: its command is read at the new path and
\* the categories it left are gone.
C12_Witness ==
    /\ last.op = "rename" /\ last.err = "ok" /\ Len(last.path) = 3
    /\ ~IsPrefix(<<last.path[1]>>, last.to)
    /\ StoreGet(fs, last.to).err = "ok"
    /\ \A d \in Ancestors(last.path) : ~Exists(fs, d)

\* C13: for a leaf src and a path dst that holds no leaf, rename(src, dst)
\* does what remove(src) followed by add(dst, the command and explanation
\* of src, overwrite = false) does: both succeed or both fail, and when they
\* succeed every path is a leaf, a directory or absent in both outcomes and
\* get returns the same at every path.
C13_RenameIsRemoveAdd ==
    \A src \in Paths, dst \in Paths :
        LET was == StoreGet(fs, src)
            r == StoreRename(fs, src, dst)
            gone == StoreRemove(fs, src)
            added == StoreAdd(gone.fs,
                              NewCommand(dst, was.val.command,
                                         was.val.explanation),
                              FALSE)
        IN (IsFile(fs, src) /\ was.err = "ok" /\ ~IsFile(fs, dst)
               /\ gone.err = "ok") =>
            /\ (r.err = "ok") <=> (added.err = "ok")
            /\ r.err = "ok" =>
                   \A q \in Nodes :
                       /\ r.fs[q].kind = added.fs[q].kind
                       /\ StoreGet(r.fs, q) = StoreGet(added.fs, q)

\* C14: an add, a remove or a rename that returns an error leaves every
\* leaf, every text and every directory as it was.
C14_FailureChangesNothing ==
    /\ \A cmd \in Commands, overwrite \in BOOLEAN :
           LET r == StoreAdd(fs, cmd, overwrite) IN
           r.err # "ok" => r.fs = fs
    /\ \A p \in Paths :
           LET r == StoreRemove(fs, p) IN
           r.err # "ok" => r.fs = fs
    /\ \A src \in Paths, dst \in Paths :
           LET r == StoreRename(fs, src, dst) IN
           r.err # "ok" => r.fs = fs

\* The elements of a sequence.
Range(seq) == {seq[i] : i \in 1..Len(seq)}

\* The leaves at or below the prefix that get retrieves.
ReadableUnder(f, prefix) ==
    {q \in Paths : /\ (q = prefix \/ IsPrefix(prefix, q))
                   /\ StoreGet(f, q).err = "ok"}

\* C15: in a store that has its root, list(None) and list(prefix) succeed
\* and return, once each and in strictly ascending order of the path string,
\* the commands get retrieves at the prefix itself and below it by path
\* segments; a prefix that names nothing gives the empty sequence.
C15_ListOrdered ==
    StoreExists(fs) =>
        \A prefix \in Nodes :
            LET l == StoreList(fs, prefix)
                under == ReadableUnder(fs, prefix)
            IN /\ l.err = "ok"
               /\ Len(l.val) = Cardinality(under)
               /\ Range(l.val) = {StoreGet(fs, q).val : q \in under}
               /\ \A i \in 1..(Len(l.val) - 1) :
                      StrLess(PathStr(l.val[i].path), PathStr(l.val[i + 1].path))
               /\ ~Exists(fs, prefix) => l.val = <<>>

\* C15, its case: list(Some("a")) has just been called on a store with a
\* leaf in the category a and a leaf in the category ab, whose path string
\* begins with "a" as well.
C15_Witness ==
    /\ last.op = "list" /\ last.path = <<"a">> /\ last.err = "ok"
    /\ ReadableUnder(fs, <<"a">>) # {}
    /\ ReadableUnder(fs, <<"ab">>) # {}
    /\ Len(StoreList(fs, <<"a">>).val) = 1
    /\ Len(StoreList(fs, Root).val) = 2

\* The leaves whose text does not parse.
Malformed(f) == {q \in Leaves(f) : Parse(q, f[q].content).err # "ok"}

\* C16: with a leaf in the store whose text does not parse, list succeeds
\* and returns the command of every leaf that parses, and of no other.
C16_ListSkipsMalformed ==
    Malformed(fs) # {} =>
        LET l == StoreList(fs, Root) IN
        /\ l.err = "ok"
        /\ {c.path : c \in Range(l.val)} = Leaves(fs) \ Malformed(fs)
        /\ \A c \in Range(l.val) : c = Parse(c.path, fs[c.path].content).val

\* C16, its case: the whole store has just been listed with one leaf in it
\* that parses and one that does not.
C16_Witness ==
    /\ last.op = "list" /\ last.path = Root /\ last.err = "ok" /\ ~running
    /\ Malformed(fs) # {}
    /\ Leaves(fs) \ Malformed(fs) # {}

\* The places of the line feeds of a text, and the place of the k-th, one
\* past the end when there are fewer.
LineFeeds(t) == {i \in 1..Len(t) : t[i] = NL}
LineFeed(t, k) ==
    IF Cardinality(LineFeeds(t)) >= k
    THEN CHOOSE i \in LineFeeds(t) :
             Cardinality({j \in LineFeeds(t) : j <= i}) = k
    ELSE Len(t) + 1

\* The number of lines of a text, and its k-th line: what lies between the
\* line feeds before and after it.
LineCount(t) ==
    IF t = <<>> THEN 0
    ELSE Cardinality(LineFeeds(t)) + (IF t[Len(t)] = NL THEN 0 ELSE 1)
LineAt(t, k) ==
    SubSeq(t, IF k = 1 THEN 1 ELSE LineFeed(t, k - 1) + 1, LineFeed(t, k) - 1)

\* s is u without the white space at its two ends.
Trimmed(s, u) ==
    /\ \E i \in 0..Len(u), j \in 0..Len(u) :
           /\ i + j <= Len(u)
           /\ s = SubSeq(u, i + 1, Len(u) - j)
           /\ \A k \in 1..i : IsSpace(u[k])
           /\ \A k \in (Len(u) - j + 1)..Len(u) : IsSpace(u[k])
    /\ s # <<>> => (~IsSpace(s[1]) /\ ~IsSpace(s[Len(s)]))

\* C17: a text with no line, or with a first line that is empty once
\* trimmed, parses to InvalidFormat; any other text parses to the command
\* that is its trimmed first line, with the trimmed second line as the
\* explanation, or the empty explanation when there is no second line.
C17_ParseLines ==
    \A p \in Leaves(fs) :
        LET t == fs[p].content
            r == Parse(p, t)
        IN IF LineCount(t) = 0 \/ Trimmed(<<>>, LineAt(t, 1))
           THEN r.err = "InvalidFormat"
           ELSE /\ r.err = "ok"
                /\ r.val.path = p
                /\ Trimmed(r.val.command, LineAt(t, 1))
                /\ IF LineCount(t) >= 2
                   THEN Trimmed(r.val.explanation, LineAt(t, 2))
                   ELSE r.val.explanation = <<>>

\* C17, its case: get has just read a file of two lines whose second line
\* is an explanation with white space before it.
C17_Witness ==
    /\ last.op = "get" /\ last.err = "ok" /\ IsFile(fs, last.path)
    /\ LET t == fs[last.path].content IN
       /\ LineCount(t) = 2
       /\ Parse(last.path, t).val.explanation \notin {<<>>, LineAt(t, 2)}

\* C18: an add, a rename or an import whose target path is empty, begins
\* with the separator or has a ".." segment fails with InvalidPath and leaves
\* the store as it was.
C18_InvalidPathRefused ==
    StoreExists(fs) =>
        \A path \in BadArgs, force \in BOOLEAN :
            /\ AddExec(fs, path, <<"x">>, <<>>, force)
                   = [err |-> "InvalidPath", fs |-> fs]
            /\ \A src \in Paths :
                   MvExec(fs, src, path) = [err |-> "InvalidPath", fs |-> fs]
            /\ ImportExec(fs, 1, <<NewCommand(path, <<"x">>, <<>>)>>, force)
                   = [err |-> "InvalidPath", fs |-> fs]

\* C19: while the root is not there, get, add, remove, rename and list, on
\* the Store and through the command line, fail with NotInitialized and
\* leave the root absent.
C19_NotInitialized ==
    ~StoreExists(fs) =>
        /\ \A p \in Paths :
               /\ StoreGet(fs, p).err = "NotInitialized"
               /\ StoreRemove(fs, p) = [err |-> "NotInitialized", fs |-> fs]
               /\ \A dst \in Paths :
                      /\ StoreRename(fs, p, dst)
                             = [err |-> "NotInitialized", fs |-> fs]
                      /\ MvExec(fs, p, dst)
                             = [err |-> "NotInitialized", fs |-> fs]
        /\ \A cmd \in Commands, overwrite \in BOOLEAN :
               /\ StoreAdd(fs, cmd, overwrite)
                      = [err |-> "NotInitialized", fs |-> fs]
               /\ AddExec(fs, cmd.path, cmd.command, cmd.explanation, overwrite)
                      = [err |-> "NotInitialized", fs |-> fs]
        /\ \A prefix \in Nodes : StoreList(fs, prefix).err = "NotInitialized"

\* C20: an import of a document whose version is not 1, a higher one
\* included, returns an error and leaves every file of the store as it was.
C20_ImportVersion ==
    \A version \in Versions \ {1}, doc \in Docs, force \in BOOLEAN :
        LET r == ImportExec(fs, version, doc, force) IN
        /\ r.err \in {"Config", "NotInitialized"}
        /\ StoreExists(fs) => r.err = "Config"
        /\ r.fs = fs

\* C20, its case: an import with --force of a document of version 2 that
\* names a leaf of the store has just been refused.
C20_Witness ==
    /\ last.op = "cmdx import" /\ last.version = 2 /\ last.err = "Config"
    /\ last.force /\ last.doc # <<>>
    /\ IsFile(fs, <<"a">>) /\ last.doc[1].path = <<"a">>


\* The queries the searches are asked: up to two characters of the paths,
\* the commands and the explanations.
SearchQueries ==
    LET chars == {"a", "b", "x", "e"} IN
    {<<>>} \cup {<<c>> : c \in chars}
           \cup {<<c, d>> : c \in chars, d \in chars}

\* A sequence back to front.
Reverse(seq) == [i \in 1..Len(seq) |-> seq[Len(seq) + 1 - i]]

\* The record sequences the searches are asked about: the commands of the
\* store as list(None) gives them, and the same back to front.
RecordSequences ==
    {StoreList(fs, Root).val, Reverse(StoreList(fs, Root).val)}

\* The rows <<index from 0, score>> are the records that have a score, each
\* once and with its score, a greater score first and, of one score, the
\* earlier record first.
Ranked(rows, scores) ==
    /\ {rows[k][1] : k \in 1..Len(rows)}
           = {i - 1 : i \in {j \in 1..Len(scores) : scores[j] # None}}
    /\ \A k \in 1..Len(rows) :
           /\ rows[k][2] = scores[rows[k][1] + 1][1]
           /\ \A l \in (k + 1)..Len(rows) :
                  \/ rows[k][2] > rows[l][2]
                  \/ rows[k][2] = rows[l][2] /\ rows[k][1] < rows[l][1]

\* The rows of what fuzzy_search found, each record by its index in cmds.
FoundRows(found, cmds) ==
    [k \in 1..Len(found) |-> <<Position(cmds, found[k][1].path)[1], found[k][2]>>]

\* C21: for every query and record sequence, the filter of the picker and
\* fuzzy_search return exactly the records that match, by descending score,
\* records of one score in the order of the input; the empty query returns
\* every record in the original order, and a query no record matches
\* returns the empty sequence.
C21_SearchRanked ==
    \A q \in SearchQueries, cmds \in RecordSequences :
        LET rows == FilterRows(q, cmds)
            found == FuzzySearch(q, cmds)
        IN /\ q # <<>> => Ranked(rows, FieldScores(q, cmds))
           /\ Ranked(FoundRows(found, cmds), TextScores(q, cmds))
           /\ q = <<>> =>
                  /\ [k \in 1..Len(rows) |-> cmds[rows[k][1] + 1]] = cmds
                  /\ [k \in 1..Len(found) |-> found[k][1]] = cmds
           /\ (\A i \in 1..Len(cmds) : FieldScores(q, cmds)[i] = None)
                  => rows = <<>>
           /\ (\A i \in 1..Len(cmds) : TextScores(q, cmds)[i] = None)
                  => found = <<>>

\* Two records are stored; one query gives both the same score, one puts
\* the later record first, and one matches neither.
C21_Witness ==
    /\ Len(StoreList(fs, Root).val) = 2
    /\ \E cmds \in RecordSequences, tie \in SearchQueries, turn \in SearchQueries,
          miss \in SearchQueries :
           /\ tie # <<>>
           /\ Len(FilterRows(tie, cmds)) = 2
           /\ FilterRows(tie, cmds)[1][2] = FilterRows(tie, cmds)[2][2]
           /\ Len(FuzzySearch(turn, cmds)) = 2
           /\ FuzzySearch(turn, cmds)[1][1] = cmds[2]
           /\ FuzzySearch(turn, cmds)[1][2] > FuzzySearch(turn, cmds)[2][2]
           /\ FilterRows(miss, cmds) = <<>>
           /\ FuzzySearch(miss, cmds) = <<>>


\* C22: the filter of the picker (update_filter) and fuzzy_search apply one
\* scoring policy: for every query and record sequence they select the same
\* records and return them in the same order.
C22_OnePolicy ==
    \A q \in SearchQueries, cmds \in RecordSequences :
        LET rows == FilterRows(q, cmds)
            found == FuzzySearch(q, cmds)
        IN [k \in 1..Len(rows) |-> cmds[rows[k][1] + 1]]
               = [k \in 1..Len(found) |-> found[k][1]]


\* C23: copy and run resolve a query to the record stored at exactly that
\* path whenever a leaf exists at the path; the best match among list(None)
\* is used only when no leaf exists at the path, and the command fails with
\* NotFound when that search matches nothing.
C23_ExactLeafFirst ==
    last.op \in {"cmdx copy", "cmdx run"} /\ StoreExists(fs) =>
        IF IsFile(fs, last.path)
        THEN /\ last.err = StoreGet(fs, last.path).err
             /\ last.found = StoreGet(fs, last.path).val
        ELSE LET best == BestMatch(PathStr(last.path), StoreList(fs, Root).val)
             IN IF best = None
                THEN last.err = "NotFound"
                ELSE last.err = "ok" /\ last.found = best[1]


\* C24: every change of the query in Normal mode (a character inserted, one
\* deleted backward or forward, the input cleared) recomputes filtered and
\* sets the selection to 0 and the scroll offset to 0, whatever the
\* selection was and even when the filtered rows are unchanged or still
\* long enough to hold the old selection.
C24_QueryChangeResets ==
    [][running /\ mode = "Normal" /\ input' # input =>
           /\ filtered' = FilterRows(input', commands)
           /\ selected' = 0
           /\ scroll_offset' = 0]_vars


\* C25: in every state of the picker the selection is 0 when filtered is
\* empty and otherwise 0 <= selected < Len(filtered); move_down and move_up
\* change the selection by exactly one when it is not at the respective end
\* and leave it unchanged at the end.
C25_SelectionInRange ==
    /\ selected >= 0
    /\ IF filtered = <<>> THEN selected = 0 ELSE selected < Len(filtered)
    /\ [][/\ selected' >= 0
          /\ IF filtered' = <<>> THEN selected' = 0
             ELSE selected' < Len(filtered')
          /\ MoveDown =>
                 selected' = IF selected + 1 < Len(filtered) THEN selected + 1
                             ELSE selected
          /\ MoveUp =>
                 selected' = IF selected > 0 THEN selected - 1 ELSE selected]_vars

\* The picker runs under a query, with two rows and the second one selected.
C25_Witness ==
    /\ running /\ mode = "Normal"
    /\ input # <<>>
    /\ Len(filtered) = 2
    /\ selected = 1

\* C26: Enter in Normal mode sets should_quit and makes the highlighted
\* record, commands[filtered[selected]], the result of the session, no
\* record when filtered is empty; Esc in Normal mode sets should_quit with
\* no result.  A result is one of the records in memory at that moment.
C26_SelectAndCancel ==
    [][/\ SelectCurrent =>
              /\ should_quit'
              /\ selected_command' =
                     IF filtered = <<>> THEN None
                     ELSE Some(commands[filtered[selected + 1][1] + 1])
       /\ (Cancel /\ mode = "Normal") =>
              (should_quit' /\ selected_command' = None)
       /\ selected_command' # None =>
              \E i \in 1..Len(commands') : selected_command'[1] = commands'[i]]_vars

\* The session ended with a result that is not the first record in memory.
C26_Witness ==
    /\ should_quit
    /\ selected_command # None
    /\ Len(commands) = 2
    /\ selected_command[1] = commands[2]

\* C27: should_quit is set, and the session ended, only by Enter or Esc in
\* Normal mode: no key in Add, Edit, Delete or Help mode does either, a
\* confirm whose Store call fails included.
C27_QuitOnlyInNormal ==
    [][should_quit' # should_quit \/ (running /\ ~running') =>
           /\ mode = "Normal"
           /\ (SelectCurrent \/ Cancel)
           /\ should_quit']_vars

\* A confirm in a form has failed in the store and the session goes on.
C27_Witness ==
    /\ running /\ ~should_quit
    /\ mode \in {"Add", "Edit"}
    /\ last.op \in {"add", "remove", "restore"} /\ last.err # "ok"
    /\ message # None /\ message[1].is_error


\* What a successful create leaves: the record stored, last in memory, the
\* rows those of the query, the form cleared, Normal mode, a message that is
\* no error.
Created ==
    LET cmd == NewCommand(form_path, form_command, form_description) IN
    /\ StoreGet(fs', cmd.path) = [err |-> "ok", val |-> cmd]
    /\ commands' = Append(commands, cmd)
    /\ input' = input
    /\ IF input = <<>> THEN filtered' = AllRows(Len(commands'))
       ELSE Ranked(filtered', FieldScores(input, commands'))
    /\ form_path' = <<>> /\ form_command' = <<>> /\ form_description' = <<>>
    /\ mode' = "Normal"
    /\ message' # None /\ ~message'[1].is_error

C29_FailedConfirmKeeps ==
    [][(\/ /\ SaveNewCommand \/ SaveEditedCommand
           /\ form_path = <<>> \/ form_command = <<>>
        \/ /\ SaveNewCommand
           /\ form_path # <<>> /\ form_command # <<>>
           /\ StoreAdd(fs, NewCommand(form_path, form_command, form_description),
                       FALSE).err # "ok")
       => /\ UNCHANGED <<mode, form, editing_original_path, commands, filtered>>
          /\ fs' = fs
          /\ message' # None /\ message'[1].is_error]_vars

\* An add from the form was refused; the form still holds what was typed.
C29_Witness ==
    /\ running /\ mode = "Add"
    /\ last.op = "add" /\ last.err # "ok"
    /\ form_path = last.path /\ form_command # <<>>
    /\ message = Some(ErrorMessage(last.err))

C31_CancelReturns ==
    [][(Cancel /\ mode \in {"Add", "Edit", "Delete"}) =>
           /\ mode' = "Normal"
           /\ form_path' = <<>> /\ form_command' = <<>>
           /\ form_description' = <<>>
           /\ editing_original_path' = None
           /\ ~should_quit' /\ running'
           /\ UNCHANGED <<fs, commands, input, filtered, selected>>]_vars

\* A form was left by Esc: the picker is back in Normal mode after an add
\* from the form had been refused, and the error is no longer shown.
C31_Witness ==
    /\ running /\ mode = "Normal"
    /\ last.op = "add" /\ last.err # "ok"
    /\ message = None
    /\ form_path = <<>> /\ form_command = <<>> /\ editing_original_path = None


\* C32: after every step of the picker (navigation, a change of the query, a
\* change of the height, a successful create, edit or delete) the selection
\* lies in [scroll_offset, scroll_offset + visible_height - 1] whenever
\* filtered is not empty.
C32_SelectionVisible ==
    running /\ filtered # <<>> =>
        /\ scroll_offset <= selected
        /\ selected <= scroll_offset + visible_height - 1

\* C32, the navigation: move_up and move_down change the scroll offset by
\* the least amount that brings the selection among the rows shown.
C32_ScrollMinimal ==
    [][MoveUp \/ MoveDown =>
           /\ scroll_offset' <= selected'
           /\ selected' <= scroll_offset' + visible_height - 1
           /\ \A o \in 0..Len(filtered) :
                  (o <= selected' /\ selected' <= o + visible_height - 1) =>
                      (IF o >= scroll_offset THEN o - scroll_offset
                       ELSE scroll_offset - o)
                      >= (IF scroll_offset' >= scroll_offset
                          THEN scroll_offset' - scroll_offset
                          ELSE scroll_offset - scroll_offset')]_vars


\* C33: when y in Delete mode succeeds on the last of n >= 2 rows (the
\* selection is n - 1), the selection becomes n - 2, the index of the new
\* last row: it is decremented by exactly one, not reset; when the deleted
\* row was not the last one, the selection keeps its value.
C33_DeleteLastStepsBack ==
    [][(/\ DeleteSelectedCommand
        /\ Len(filtered) >= 2
        /\ last'.op = "remove" /\ last'.err = "ok")
       => selected' = IF selected = Len(filtered) - 1 THEN selected - 1
                      ELSE selected]_vars


\* C34: F3 and F4 in Normal mode change the mode only when filtered is not
\* empty, and leave the whole state as it is when it is empty; entering Edit
\* mode copies the path, the command and the explanation of the selected
\* record into the form and sets editing_original_path to its path; and in
\* every Delete mode state there is a selected record for the confirm.
C34_EditDeleteNeedRecord ==
    [][/\ (EnterEditMode \/ EnterDeleteMode) /\ filtered = <<>> =>
              UNCHANGED <<fs, mode, prompt, list, should_quit, selected_command,
                          form, active_field, message, editing_original_path>>
       /\ (mode = "Normal" /\ mode' \in {"Edit", "Delete"}) => filtered # <<>>
       /\ EnterEditMode /\ filtered # <<>> =>
              LET cmd == commands[filtered[selected + 1][1] + 1] IN
              /\ mode' = "Edit"
              /\ form_path' = cmd.path
              /\ form_command' = cmd.command
              /\ form_description' = cmd.explanation
              /\ editing_original_path' = Some(cmd.path)
       /\ mode' = "Delete" =>
              /\ selected' < Len(filtered')
              /\ filtered'[selected' + 1][1] < Len(commands')]_vars

\* The edit form was entered on the second of two rows.
C34_Witness ==
    /\ running /\ mode = "Edit"
    /\ Len(filtered) = 2 /\ selected = 1
    /\ editing_original_path = Some(commands[filtered[2][1] + 1].path)
    /\ form_path = commands[filtered[2][1] + 1].path
    /\ form_command = commands[filtered[2][1] + 1].command


\* C35: in every state of the picker editing_original_path is set if and
\* only if the mode is Edit; Enter in Edit mode therefore always has an
\* original path to remove.
C35_MarkIffEdit ==
    (editing_original_path # None) <=> (mode = "Edit")

\* An edit is under way after its confirm has failed once.
C35_Witness ==
    /\ running /\ mode = "Edit"
    /\ editing_original_path # None
    /\ message # None /\ message[1].is_error


Aborted == ~running /\ ~should_quit /\ last.op = "list"

\* C37: whatever keys edit the query in Normal mode, characters of several
\* bytes included, the cursor stays within the query on a character
\* boundary and no key aborts the session.
C37_CursorOnBoundary ==
    /\ cursor_position \in 0..Len(input)
    /\ IsCharBoundary(input, cursor_position)
    /\ ~Aborted


\* C38: in every state of the picker every index held in filtered is an
\* index into the commands in memory and no index is held twice, right
\* after a delete has shortened the commands included.
C38_RowsIndexCommands ==
    /\ \A i \in 1..Len(filtered) : filtered[i][1] \in 0..(Len(commands) - 1)
    /\ \A i \in 1..Len(filtered), j \in 1..Len(filtered) :
           filtered[i][1] = filtered[j][1] => i = j

\* A delete has just taken one of two commands out of the list, and the
\* row left holds the index of the command left.
C38_Witness ==
    /\ running /\ mode = "Normal"
    /\ last.op = "remove" /\ last.err = "ok"
    /\ message = Some(Info("Command deleted"))
    /\ Len(commands) = 1 /\ Len(filtered) = 1
    /\ commands[1].path # last.path


\* C39: the mode changes only from Normal to Add, Edit, Delete or Help and
\* from one of these back to Normal: no key takes the picker from a mode
\* other than Normal straight to a different mode other than Normal.
C39_ModeEdgesThroughNormal ==
    [][mode' # mode => (mode = "Normal" \/ mode' = "Normal")]_vars

\* An edit has been saved: the picker went from Normal to Edit and back.
C39_Witness ==
    /\ running /\ mode = "Normal"
    /\ message = Some(Info("Command updated successfully"))
    /\ last.err = "ok"


\* C40: in every state of a running picker at most two Esc keys end the
\* session: Esc in a mode other than Normal is handled and takes the picker
\* to Normal mode without ending it, and Esc in Normal mode is handled and
\* sets should_quit with no command selected, whatever store call failed
\* before.
C40_EscapeEnds ==
    /\ (running /\ mode # "Normal") =>
           ENABLED (Escape /\ mode' = "Normal" /\ running' /\ ~should_quit')
    /\ (running /\ mode = "Normal") =>
           ENABLED (Escape /\ should_quit' /\ ~running'
                           /\ selected_command' = None)

\* The session has been ended by Esc after an add or a remove of the picker
\* had failed.
C40_Witness ==
    /\ ~running /\ should_quit /\ selected_command = None
    /\ last.op \in {"add", "remove"} /\ last.err # "ok"

====
